---- MODULE Spec2Model ----
(***************************************************************************)
(* Model of the parallel-tempering driver of the AEM inversion            *)
(* (aeminvert_pt.cpp) and of the per-rank chain state (Global,            *)
(* global.cpp).  Every MPI rank runs main(); a rank's Global object is    *)
(* global[r].  Collective calls are modelled as joint actions of the      *)
(* ranks of the communicator they are made on.                            *)
(*                                                                         *)
(* Numbers are integers: a conductivity image of one row and 2^DegreeX    *)
(* columns, one response system with one window per column, an            *)
(* unnormalised Haar basis, and a whitening that divides a scaled         *)
(* residual by lambda_scale.                                               *)
(***************************************************************************)
EXTENDS Integers, Sequences, FiniteSets, TLC

\* ------------------------------------------------------------------ bounds
MaxTemperatures == 2
MaxChains == 1
MaxRanks == 4
MaxTotal == 2
MaxRate == 2
ChainSteps == 3
MaxValue == 2
MaxLambda == 2
DegreeX == 1
TemperatureBase == 2
WhitenScale == 2

VARIABLES
  cfg,          \* command line of the run (constant after Init)
  pc,           \* rank -> position of the rank in main()
  iter,         \* rank -> loop variable i of the iteration loop
  global,       \* rank -> the rank's Global object
  ch,           \* chain -> chain-history ring of the chain root (global->ch)
  fp_ch,        \* chain -> ch.dat of the chain root
  khistogram,   \* chain -> khistogram of the chain root
  trace         \* observations of the run used to state the properties

vars == <<cfg, pc, iter, global, ch, fp_ch, khistogram, trace>>

\* ------------------------------------------------------------ layout
Ranks == 0 .. (cfg.mpi_size - 1)

\* aeminvert_pt.cpp:454
NTotalChains(c) == c.temperatures * c.chains

\* The layout checks without the test that the number of chains is even
LayoutAcceptedOdd(c) ==
  ~(NTotalChains(c) = 0 \/ c.mpi_size % NTotalChains(c) # 0)

\* aeminvert_pt.cpp:455-464: the layout checks that precede construction
LayoutAccepted(c) ==
  /\ ~(NTotalChains(c) = 0 \/ c.mpi_size % NTotalChains(c) # 0)
  /\ ~(NTotalChains(c) % 2 # 0)

ProcessesPerChain == cfg.mpi_size \div NTotalChains(cfg)
ChainId(r) == r \div ProcessesPerChain
ChainRank(r) == r % ProcessesPerChain
TempId(r) == ChainId(r) \div cfg.chains

\* The chains of a run whose layout passed the checks
Chains == IF LayoutAccepted(cfg) THEN 0 .. (NTotalChains(cfg) - 1) ELSE {}
ChainRanks(c) == {r \in Ranks : ChainId(r) = c}
Root(c) == c * ProcessesPerChain

RECURSIVE Pow(_, _)
Pow(b, e) == IF e = 0 THEN 1 ELSE b * Pow(b, e - 1)

\* aeminvert_pt.cpp:470-475: pow(10, log10(max_temperature) * temp_id/(temperatures - 1)),
\* exact for a max_temperature that is a (temperatures - 1)-th power
LadderTemperature(temp_id) ==
  IF cfg.temperatures = 1
  THEN 1
  ELSE LET b == CHOOSE x \in 1 .. cfg.max_temperature :
                  Pow(x, cfg.temperatures - 1) = cfg.max_temperature
       IN Pow(b, temp_id)

\* ------------------------------------------------------------ wavelet tree
Width == Pow(2, DegreeX)
NCoeff == Width
Values == 1 .. MaxValue
Lambdas == 1 .. MaxLambda

\* global.cpp:240-243
Kmax == IF cfg.kmax > NCoeff THEN NCoeff ELSE cfg.kmax

ParentOf(idx) == IF idx = 1 THEN 0 ELSE idx \div 2

InitialTree == [i \in {0} |-> 1]
InitialPerturbation ==
  [type |-> "initialise", accepted |-> TRUE, idx |-> 0, new_value |-> 1, old_value |-> 0]

CoeffCount(S) == Cardinality(DOMAIN S)
BirthEligible(S) == {i \in 1 .. (NCoeff - 1) : i \notin DOMAIN S /\ ParentOf(i) \in DOMAIN S}
DeathEligible(S) == {i \in DOMAIN S : i # 0 /\ \A j \in DOMAIN S : j = 0 \/ ParentOf(j) # i}

TreeInsert(S, idx, v) == [i \in DOMAIN S \cup {idx} |-> IF i = idx THEN v ELSE S[i]]
TreeRemove(S, idx) == [i \in DOMAIN S \ {idx} |-> S[i]]
TreeUpdate(S, idx, v) == [S EXCEPT ![idx] = v]

MapToArray(S) == [i \in 0 .. (NCoeff - 1) |-> IF i \in DOMAIN S THEN S[i] ELSE 0]

RECURSIVE InverseHaar(_, _)
InverseHaar(a, w) ==
  IF w = 1
  THEN <<a[0]>>
  ELSE LET half == w \div 2
           low == InverseHaar(a, half)
       IN [x \in 1 .. w |->
             IF x % 2 = 1
             THEN low[(x + 1) \div 2] + a[half + ((x + 1) \div 2) - 1]
             ELSE low[x \div 2] - a[half + (x \div 2) - 1]]

Image(S) == InverseHaar(MapToArray(S), Width)

\* ------------------------------------------------------------ likelihood
Observed(col) == 0
Response(conductivity) == conductivity

Whiten(res, lambda) == (res * WhitenScale) \div lambda

RECURSIVE SumSq(_, _)
SumSq(s, n) == IF n = 0 THEN 0 ELSE s[n] * s[n] + SumSq(s, n - 1)

\* global.cpp:554-568: the columns rank i of a chain evaluates
RECURSIVE ColumnSize(_, _, _)
ColumnSize(i, columns, processes) ==
  IF i = 0
  THEN columns \div processes
  ELSE ColumnSize(i - 1, columns - (columns \div processes), processes - 1)

RECURSIVE ColumnOffset(_, _)
ColumnOffset(i, processes) ==
  IF i = 0 THEN 0
  ELSE ColumnOffset(i - 1, processes) + ColumnSize(i - 1, Width, processes)

OwnsColumn(i, col, processes) ==
  /\ col - 1 >= ColumnOffset(i, processes)
  /\ col - 1 < ColumnOffset(i, processes) + ColumnSize(i, Width, processes)

\* global.cpp:624-728: the residuals one rank computes for its own columns
LocalResidual(S, col) == Observed(col) - Response(Image(S)[col])

\* global.cpp:749-765: MPI_Allgatherv leaves what no rank sends untouched
GatheredResidual(g, processes) ==
  [col \in 1 .. Width |->
     IF \E i \in 0 .. (processes - 1) : OwnsColumn(i, col, processes)
     THEN LocalResidual(g.wt, col)
     ELSE g.residual[col]]

GatheredNormed(g, processes) ==
  [col \in 1 .. Width |->
     IF \E i \in 0 .. (processes - 1) : OwnsColumn(i, col, processes)
     THEN Whiten(LocalResidual(g.wt, col), g.lambda_scale)
     ELSE g.residual_normed[col]]

RECURSIVE OwnedSumSq(_, _, _, _)
OwnedSumSq(S, lambda, processes, col) ==
  IF col = 0 THEN 0
  ELSE (IF \E i \in 0 .. (processes - 1) : OwnsColumn(i, col, processes)
        THEN Whiten(LocalResidual(S, col), lambda) * Whiten(LocalResidual(S, col), lambda)
        ELSE 0) + OwnedSumSq(S, lambda, processes, col - 1)

\* ------------------------------------------------------------ Global
\* global.cpp:62-320: the object as the constructor leaves it; the residual
\* buffers exist only if !posteriork
NewGlobal ==
  [wt |-> IF cfg.initial_model = {} THEN InitialTree
          ELSE CHOOSE S \in cfg.initial_model : TRUE,
   last |-> InitialPerturbation,
   lambda_scale |-> 1,
   current_likelihood |-> -1,
   current_log_normalization |-> 0,
   temperature |-> 1,
   residuals_valid |-> FALSE,
   image |-> IF cfg.posteriork THEN "nullptr" ELSE "aemimage",
   residual_size |-> IF cfg.posteriork THEN "indeterminate" ELSE "ntotal",
   residual |-> IF cfg.posteriork THEN <<>> ELSE [col \in 1 .. Width |-> 0],
   residual_normed |-> IF cfg.posteriork THEN <<>> ELSE [col \in 1 .. Width |-> 0],
   last_valid_residual |-> IF cfg.posteriork THEN <<>> ELSE [col \in 1 .. Width |-> 0],
   last_valid_residual_normed |-> IF cfg.posteriork THEN <<>> ELSE [col \in 1 .. Width |-> 0],
   mean_residual_n |-> 0]

\* initialize_mpi without the assignment of the temperature
InitializeMpiKeepsTemperature(g, temperature) == g

\* global.cpp:530-575
InitializeMpi(g, temperature) == [g EXCEPT !.temperature = temperature]

\* global.cpp:548: initialize_mpi reads image->columns whether or not image was allocated
InitializeMpiReadsNull(g) == g.image = "nullptr"

\* global.cpp:577-774: what the call leaves in the object
LikelihoodMpi(g) ==
  IF ~cfg.posteriork
  THEN [g EXCEPT !.residual = GatheredResidual(g, ProcessesPerChain),
                 !.residual_normed = GatheredNormed(g, ProcessesPerChain)]
  ELSE g

\* global.cpp:730-767 and 769-773: the value the call returns
LikelihoodMpiValue(g) ==
  IF ~cfg.posteriork
  THEN OwnedSumSq(g.wt, g.lambda_scale, ProcessesPerChain, Width)
  ELSE 1

LikelihoodMpiNorm(g) ==
  IF ~cfg.posteriork THEN Width * g.lambda_scale ELSE 0

\* global.cpp:326-482
Likelihood(g) ==
  IF ~cfg.posteriork
  THEN [g EXCEPT !.residual = [col \in 1 .. Width |-> LocalResidual(g.wt, col)],
                 !.residual_normed =
                    [col \in 1 .. Width |-> Whiten(LocalResidual(g.wt, col), g.lambda_scale)]]
  ELSE g

\* global.cpp:877-895
UpdateResidualMean(g) == [g EXCEPT !.mean_residual_n = @ + 1]

\* global.cpp:881-893: the loop runs to residual_size, which only the !posteriork
\* branch of the constructor sets, and reads the last_valid buffers
UpdateResidualMeanReadsUnallocated(g) == g.residual_size = "indeterminate"

\* global.cpp:866-870: reject calls update_residual_mean without a posteriork test
RejectReadsUnallocated(g) == UpdateResidualMeanReadsUnallocated(g)

\* global.cpp:846-859
Accept(g) ==
  IF ~cfg.posteriork
  THEN UpdateResidualMean([g EXCEPT !.residuals_valid = TRUE,
                                    !.last_valid_residual = g.residual,
                                    !.last_valid_residual_normed = g.residual_normed])
  ELSE [g EXCEPT !.residuals_valid = TRUE]

\* global.cpp:866-870
Reject(g) == UpdateResidualMean(g)

\* invalidate_residuals that leaves the flag as it is
InvalidateResidualsNoop(g) == g

\* global.cpp:840-844
InvalidateResiduals(g) == [g EXCEPT !.residuals_valid = FALSE]

\* hierarchical_likelihood that recomputes the residuals whatever the flag says
HierarchicalLikelihoodRecomputes(g, proposed_lambda_scale) ==
  IF ~cfg.posteriork
  THEN LET g1 == Accept(Likelihood(g))
       IN [g1 EXCEPT !.residual_normed =
             [col \in 1 .. Width |-> Whiten(g1.last_valid_residual[col], proposed_lambda_scale)]]
  ELSE g

\* global.cpp:484-528: the object after the serial hierarchical likelihood
HierarchicalLikelihood(g, proposed_lambda_scale) ==
  IF ~cfg.posteriork
  THEN LET g1 == IF ~g.residuals_valid THEN Accept(Likelihood(g)) ELSE g
       IN [g1 EXCEPT !.residual_normed =
             [col \in 1 .. Width |-> Whiten(g1.last_valid_residual[col], proposed_lambda_scale)]]
  ELSE g

\* global.cpp:492-496 and 784-788: the refresh both hierarchical likelihoods begin with
RefreshResiduals(g) ==
  IF ~g.residuals_valid THEN Accept(LikelihoodMpi(g)) ELSE g

\* global.cpp:776-803: the object of chain rank mpi_rank after the call
HierarchicalLikelihoodMpi(g, mpi_rank, proposed_lambda_scale) ==
  LET g1 == RefreshResiduals(g)
  IN IF mpi_rank = 0 THEN HierarchicalLikelihood(g1, proposed_lambda_scale) ELSE g1

\* global.cpp:501-523: the value the root broadcasts
HierarchicalLikelihoodValue(g, proposed_lambda_scale) ==
  IF ~cfg.posteriork
  THEN SumSq([col \in 1 .. Width |-> Whiten(g.last_valid_residual[col], proposed_lambda_scale)],
             Width)
  ELSE 1

HierarchicalLikelihoodNorm(proposed_lambda_scale) ==
  IF ~cfg.posteriork THEN Width * proposed_lambda_scale ELSE 0

\* ------------------------------------------------------------ chain history
NewChainHistory ==
  [initialised |-> FALSE, nsteps |-> 0, S_v |-> <<>>,
   likelihood |-> 0, temperature |-> 0, hierarchical |-> 0, steps |-> <<>>]

NewFile == [open |-> FALSE, segments |-> 0, ids |-> <<>>]

ChainHistoryInitialise(h, S_v, likelihood, temperature, hierarchical) ==
  [initialised |-> TRUE, nsteps |-> 1, S_v |-> S_v,
   likelihood |-> likelihood, temperature |-> temperature,
   hierarchical |-> hierarchical, steps |-> <<>>]

ChainHistoryFull(h) == h.nsteps = ChainSteps

ChainHistoryAddStep(h, step) ==
  [h EXCEPT !.nsteps = @ + 1, !.steps = Append(@, step)]

ApplyStep(S, step) ==
  IF ~step.accepted THEN S
  ELSE CASE step.type = "birth" -> TreeInsert(S, step.idx, step.new_value)
         [] step.type = "death" -> TreeRemove(S, step.idx)
         [] step.type = "value" -> TreeUpdate(S, step.idx, step.new_value)
         [] OTHER -> S

RECURSIVE Replay(_, _, _)
Replay(S, steps, n) ==
  IF n = 0 THEN S ELSE ApplyStep(Replay(S, steps, n - 1), steps[n])

ChainHistoryReset(h) ==
  [h EXCEPT !.nsteps = 1,
            !.S_v = Replay(h.S_v, h.steps, Len(h.steps)),
            !.likelihood = IF h.steps = <<>> THEN @ ELSE h.steps[Len(h.steps)].likelihood,
            !.temperature = IF h.steps = <<>> THEN @ ELSE h.steps[Len(h.steps)].temperature,
            !.hierarchical = IF h.steps = <<>> THEN @ ELSE h.steps[Len(h.steps)].hierarchical,
            !.steps = <<>>]

ChainHistoryWrite(h, f) ==
  [f EXCEPT !.segments = @ + 1,
            !.ids = @ \o [n \in 1 .. Len(h.steps) |-> h.steps[n].id]]

\* ------------------------------------------------------------ moves
InvalidProposal(kind) ==
  [kind |-> kind, valid |-> FALSE, idx |-> 0, value |-> 0, accept |-> FALSE]

BirthProposals(S) ==
  IF CoeffCount(S) >= Kmax \/ BirthEligible(S) = {}
  THEN {InvalidProposal("birth")}
  ELSE [kind : {"birth"}, valid : {TRUE}, idx : BirthEligible(S), value : Values,
        accept : BOOLEAN]

DeathProposals(S) ==
  IF DeathEligible(S) = {}
  THEN {InvalidProposal("death")}
  ELSE [kind : {"death"}, valid : {TRUE}, idx : DeathEligible(S), value : {0},
        accept : BOOLEAN]

ValueProposals(S) ==
  {p \in [kind : {"value"}, valid : {TRUE}, idx : DOMAIN S, value : Values, accept : BOOLEAN] :
     p.value # S[p.idx]}

Proposals(S) == BirthProposals(S) \cup DeathProposals(S) \cup ValueProposals(S)

ProposedTree(S, p) ==
  CASE p.kind = "birth" -> TreeInsert(S, p.idx, p.value)
    [] p.kind = "death" -> TreeRemove(S, p.idx)
    [] OTHER -> TreeUpdate(S, p.idx, p.value)

Perturbation(S, p) ==
  [type |-> p.kind,
   accepted |-> p.valid /\ p.accept,
   idx |-> p.idx,
   new_value |-> p.value,
   old_value |-> IF p.valid /\ p.kind # "birth" THEN S[p.idx] ELSE 0]

\* Birth::step, Death::step, Value::step on one rank of the chain: propose,
\* evaluate the proposed likelihood, then commit and accept or undo and reject
MoveStep(g, p) ==
  IF ~p.valid
  THEN [g EXCEPT !.last = Perturbation(g.wt, p)]
  ELSE LET gp == [g EXCEPT !.wt = ProposedTree(g.wt, p), !.last = Perturbation(g.wt, p)]
           gl == LikelihoodMpi(gp)
       IN IF p.accept
          THEN Accept([gl EXCEPT !.current_likelihood = LikelihoodMpiValue(gp),
                                 !.current_log_normalization = LikelihoodMpiNorm(gp)])
          ELSE Reject([gl EXCEPT !.wt = g.wt])

HierarchicalProposals(g) ==
  [value : Lambdas \ {g.lambda_scale}, accept : BOOLEAN]

\* Hierarchical::step on one rank of the chain; like and norm are what the root broadcasts
HierarchicalStep(g, mpi_rank, p, like, norm) ==
  LET gh == HierarchicalLikelihoodMpi(g, mpi_rank, p.value)
  IN IF p.accept
     THEN [gh EXCEPT !.lambda_scale = p.value,
                     !.current_likelihood = like,
                     !.current_log_normalization = norm]
     ELSE gh

\* PTExchange::step and Resample::step: the model a rank receives from a donor
ReceiveModel(g, donor) ==
  [g EXCEPT !.wt = donor.wt,
            !.lambda_scale = donor.lambda_scale,
            !.current_likelihood = donor.current_likelihood,
            !.current_log_normalization = donor.current_log_normalization]

\* PTExchange::step: the pairings of the chains and the pairs that swap
Pairings ==
  {m \in [Chains -> Chains] : \A c \in Chains : m[c] # c /\ m[m[c]] = c}

Swaps(m) ==
  {a \in [Chains -> BOOLEAN] : \A c \in Chains : a[c] = a[m[c]]}

\* Resample::step: the chain each chain copies its model from
Donors ==
  {d \in [Chains -> Chains] :
     \A c \in Chains :
       d[c] = c \/ global[Root(d[c])].temperature < global[Root(c)].temperature}

\* ------------------------------------------------------------ driver
\* The optional parts of a run: --posteriork, --lambda-std, --prior-std, --resample,
\* --exchange-rate (and --resample-rate), --kmax
Mode(posteriork, hierarchical, hierarchical_prior, resample, rate, kmax) ==
  [posteriork |-> posteriork, hierarchical |-> hierarchical,
   hierarchical_prior |-> hierarchical_prior, resample |-> resample,
   rate |-> rate, kmax |-> kmax]

Modes ==
  {Mode(FALSE, FALSE, FALSE, FALSE, 1, NCoeff + 1),
   Mode(FALSE, FALSE, FALSE, FALSE, MaxRate, 1),
   Mode(FALSE, TRUE, FALSE, FALSE, 1, 1),
   Mode(FALSE, FALSE, TRUE, TRUE, 1, 1),
   Mode(TRUE, TRUE, FALSE, FALSE, 1, 1)}

Layouts ==
  [temperatures : 1 .. MaxTemperatures,
   chains : 1 .. MaxChains,
   mpi_size : (MaxRanks - 1) .. MaxRanks]

Config(layout, mode, io_fails) ==
  [temperatures |-> layout.temperatures,
   chains |-> layout.chains,
   mpi_size |-> layout.mpi_size,
   max_temperature |-> Pow(TemperatureBase, layout.temperatures - 1),
   posteriork |-> mode.posteriork,
   hierarchical |-> mode.hierarchical,
   hierarchical_prior |-> mode.hierarchical_prior,
   resample |-> mode.resample,
   exchange_rate |-> mode.rate,
   resample_rate |-> mode.rate,
   kmax |-> mode.kmax,
   total |-> MaxTotal,
   io_fails |-> io_fails,
   initial_model |-> {}]

Configs == {Config(l, m, FALSE) : l \in Layouts, m \in Modes}

\* aeminvert_pt.cpp:804 and 840
ExchangeDue(i) == cfg.exchange_rate > 0 /\ (i + 1) % cfg.exchange_rate = 0
ResampleDue(i) == cfg.resample /\ cfg.resample_rate > 0 /\ (i + 1) % cfg.resample_rate = 0

\* aeminvert_pt.cpp:619-902: the statement a rank reaches next in iteration i
AfterResample(i) == IF i + 1 < cfg.total THEN "barrier" ELSE "finish"
AfterExchange(i) == IF ResampleDue(i) THEN "resample" ELSE AfterResample(i)
AfterHierarchicalPrior(i) == IF ExchangeDue(i) THEN "exchange" ELSE AfterExchange(i)
AfterHierarchical(i) == IF cfg.hierarchical_prior THEN "hprior" ELSE AfterHierarchicalPrior(i)
AfterMove(i) == IF cfg.hierarchical THEN "hier" ELSE AfterHierarchical(i)

NextIter(next, i) == IF next = "barrier" THEN i + 1 ELSE i

\* An iteration loop without the world barrier
BarrierSkipped(q, i) == TRUE

\* aeminvert_pt.cpp:624: the barrier of iteration i completes once every rank of
\* MPI_COMM_WORLD has entered it
BarrierArrived(q, i) == iter[q] >= i

StepRecord(type, accepted, idx, new_value, old_value, likelihood, temperature, hierarchical, id) ==
  [type |-> type, accepted |-> accepted, idx |-> idx,
   new_value |-> new_value, old_value |-> old_value,
   likelihood |-> likelihood, temperature |-> temperature,
   hierarchical |-> hierarchical, id |-> id]

\* aeminvert_pt.cpp:694-703: the record of a birth, death or value step
MoveRecord(g, id) ==
  StepRecord(g.last.type, g.last.accepted, g.last.idx, g.last.new_value, g.last.old_value,
             g.current_likelihood, 1, g.lambda_scale, id)

\* aeminvert_pt.cpp:721-727 and 767-773: the record of a hierarchical step
HierarchicalRecord(g, type, p, old_value, id) ==
  StepRecord(type, p.accept, 0, p.value, old_value,
             g.current_likelihood, g.temperature, g.lambda_scale, id)

\* aeminvert_pt.cpp:675-707 (and 729-751, 775-797): flush the ring if it is full,
\* then append; io is whether the write succeeds
RootAppend(h, f, step, io) ==
  IF ChainHistoryFull(h)
  THEN IF ~f.open
       THEN [h |-> h, f |-> f, status |-> IF io THEN "crashed" ELSE "failed"]
       ELSE IF io
            THEN [h |-> ChainHistoryAddStep(ChainHistoryReset(h), step),
                  f |-> ChainHistoryWrite(h, f),
                  status |-> "ok"]
            ELSE [h |-> h, f |-> f, status |-> "failed"]
  ELSE [h |-> ChainHistoryAddStep(h, step), f |-> f, status |-> "ok"]

\* The flush after a new model without the re-initialisation of the ring
RootFlushOnly(h, f, g, io) ==
  IF io
  THEN [h |-> ChainHistoryReset(h), f |-> ChainHistoryWrite(h, f), status |-> "ok"]
  ELSE [h |-> h, f |-> f, status |-> "failed"]

\* aeminvert_pt.cpp:816-835 and 850-869: flush and re-initialise after a new model
RootReinitialise(h, f, g, io) ==
  IF io
  THEN [h |-> ChainHistoryInitialise(h, g.wt, g.current_likelihood, g.temperature,
                                     g.lambda_scale),
        f |-> ChainHistoryWrite(h, f),
        status |-> "ok"]
  ELSE [h |-> h, f |-> f, status |-> "failed"]

\* An end-of-run flush that tests nsteps > 2
RootFinishOffByOne(h, f, io) ==
  IF h.nsteps > 2
  THEN IF io
       THEN [h |-> h, f |-> [ChainHistoryWrite(h, f) EXCEPT !.open = FALSE], status |-> "ok"]
       ELSE [h |-> h, f |-> f, status |-> "failed"]
  ELSE [h |-> h, f |-> [f EXCEPT !.open = FALSE], status |-> "ok"]

\* aeminvert_pt.cpp:916-932: the end-of-run flush
RootFinish(h, f, io) ==
  IF h.nsteps > 1
  THEN IF io
       THEN [h |-> h, f |-> [ChainHistoryWrite(h, f) EXCEPT !.open = FALSE], status |-> "ok"]
       ELSE [h |-> h, f |-> f, status |-> "failed"]
  ELSE [h |-> h, f |-> [f EXCEPT !.open = FALSE], status |-> "ok"]

NewTrace ==
  [null_access |-> FALSE,
   khistogram_overrun |-> FALSE,
   appended |-> [c \in Chains |-> 0],
   last_move |-> [c \in Chains |-> "none"],
   replaced |-> [r \in Ranks |-> FALSE],
   renewed |-> [c \in Chains |-> FALSE],
   hier_eval |-> [c \in Chains |-> "none"]]

Init ==
  /\ cfg \in Configs
  /\ pc = [r \in Ranks |-> "start"]
  /\ iter = [r \in Ranks |-> -1]
  /\ global = <<>>
  /\ ch = <<>>
  /\ fp_ch = <<>>
  /\ khistogram = <<>>
  /\ trace = <<>>

\* aeminvert_pt.cpp:454-464
CheckLayout(r) ==
  /\ pc[r] = "start"
  /\ pc' = [pc EXCEPT ![r] = IF LayoutAccepted(cfg) THEN "construct" ELSE "rejected"]
  /\ UNCHANGED <<cfg, iter, global, ch, fp_ch, khistogram, trace>>

\* aeminvert_pt.cpp:466-617: construction, initialize_mpi, the initial likelihood
\* and accept, the khistogram, the ring and ch.dat of each chain root.  With
\* posteriork, initialize_mpi reads image->columns of a null image: the ranks in
\* crashed stop there, the others go on.
Setup ==
  /\ \A r \in Ranks : pc[r] = "construct"
  /\ \E crashed \in (IF InitializeMpiReadsNull(NewGlobal) THEN {{}, Ranks} ELSE {{}}) :
       /\ pc' = [r \in Ranks |-> IF r \in crashed THEN "crashed" ELSE "barrier"]
       /\ iter' = [r \in Ranks |-> IF r \in crashed THEN -1 ELSE 0]
  /\ global' =
       [r \in Ranks |->
          LET g0 == InitializeMpi(NewGlobal, LadderTemperature(TempId(r)))
              g1 == LikelihoodMpi(g0)
          IN Accept([g1 EXCEPT !.current_likelihood = LikelihoodMpiValue(g0),
                               !.current_log_normalization = LikelihoodMpiNorm(g0)])]
  /\ ch' = [c \in Chains |->
              IF ~cfg.posteriork
              THEN ChainHistoryInitialise(NewChainHistory,
                                          global'[Root(c)].wt,
                                          global'[Root(c)].current_likelihood,
                                          global'[Root(c)].temperature,
                                          global'[Root(c)].lambda_scale)
              ELSE NewChainHistory]
  /\ fp_ch' = [c \in Chains |-> [NewFile EXCEPT !.open = ~cfg.posteriork]]
  /\ khistogram' = [c \in Chains |-> [k \in 1 .. cfg.kmax |-> 0]]
  /\ trace' = [NewTrace EXCEPT !.null_access = InitializeMpiReadsNull(NewGlobal)]
  /\ UNCHANGED cfg

\* aeminvert_pt.cpp:624-633: the world barrier and the broadcast of u on the chain
Barrier(c) ==
  /\ pc[Root(c)] = "barrier"
  /\ \A r \in ChainRanks(c) : pc[r] = "barrier"
  /\ \A q \in Ranks : BarrierArrived(q, iter[Root(c)])
  /\ pc' = [r \in Ranks |-> IF r \in ChainRanks(c) THEN "move" ELSE pc[r]]
  /\ UNCHANGED <<cfg, iter, global, ch, fp_ch, khistogram, trace>>

\* The ranks' next positions after a joint step of the ranks in R: stopped ranks
\* stay stopped, the others reach next
Positions(R, failed, crashed, next) ==
  [r \in Ranks |->
     IF r \in failed THEN "failed"
     ELSE IF r \in crashed THEN "crashed"
     ELSE IF r \in R THEN next
     ELSE pc[r]]

Iterations(R, stopped, next) ==
  [r \in Ranks |-> IF r \in R \ stopped THEN NextIter(next, iter[r]) ELSE iter[r]]

\* The writes to a file that the root may see fail
IoOutcomes(writes) == IF writes /\ cfg.io_fails THEN BOOLEAN ELSE {TRUE}

\* A rejected step calls Global::reject; where that reads unallocated buffers the
\* ranks of the chain either stop there or go on
RejectCrashes(c, p) ==
  IF p.valid /\ ~p.accept /\ RejectReadsUnallocated(global[Root(c)])
  THEN {{}, ChainRanks(c)}
  ELSE {{}}

\* aeminvert_pt.cpp:670: khistogram[current_k - 1] ++ writes outside the kmax
\* entries of the histogram when current_k is not in 1 .. kmax
KhistogramOverrun(h, current_k) == current_k \notin DOMAIN h

\* The ranks that stop at a write outside the histogram: the root or none
KhistogramCrashes(c, current_k) ==
  IF KhistogramOverrun(khistogram[c], current_k) THEN {{}, {Root(c)}} ELSE {{}}

\* aeminvert_pt.cpp:635-709: the birth, death or value step of a chain, then the
\* khistogram and the chain-history record of the chain root
Move(c) ==
  /\ pc[Root(c)] = "move"
  /\ \A r \in ChainRanks(c) : pc[r] = "move"
  /\ \E p \in Proposals(global[Root(c)].wt) :
     \E io \in IoOutcomes(~cfg.posteriork /\ ChainHistoryFull(ch[c])) :
     \E rejectdown \in RejectCrashes(c, p) :
     \E kdown \in KhistogramCrashes(c, CoeffCount(MoveStep(global[Root(c)], p).wt)) :
       LET root == Root(c)
           next == AfterMove(iter[root])
           g2 == [r \in Ranks |-> IF r \in ChainRanks(c) THEN MoveStep(global[r], p)
                                                          ELSE global[r]]
           current_k == CoeffCount(g2[root].wt)
           crashed == rejectdown \cup kdown
           out == RootAppend(ch[c], fp_ch[c],
                             MoveRecord(g2[root], trace.appended[c] + 1), io)
           rootdown == root \in crashed
           failed == IF ~cfg.posteriork /\ ~rootdown /\ out.status = "failed" THEN {root} ELSE {}
           appends == ~cfg.posteriork /\ ~rootdown /\ out.status = "ok"
       IN /\ global' = g2
          /\ khistogram' = IF rootdown \/ KhistogramOverrun(khistogram[c], current_k)
                           THEN khistogram
                           ELSE [khistogram EXCEPT ![c][current_k] = @ + 1]
          /\ ch' = IF appends THEN [ch EXCEPT ![c] = out.h] ELSE ch
          /\ fp_ch' = IF appends THEN [fp_ch EXCEPT ![c] = out.f] ELSE fp_ch
          /\ pc' = Positions(ChainRanks(c), failed, crashed, next)
          /\ iter' = Iterations(ChainRanks(c), failed \cup crashed, next)
          /\ trace' = [trace EXCEPT
                         !.null_access =
                            @ \/ (p.valid /\ ~p.accept /\ RejectReadsUnallocated(global[root])),
                         !.khistogram_overrun =
                            @ \/ (root \notin rejectdown
                                    /\ KhistogramOverrun(khistogram[c], current_k)),
                         !.appended[c] = IF appends THEN @ + 1 ELSE @,
                         !.last_move[c] = IF ~p.valid THEN "invalid"
                                          ELSE IF p.accept THEN "accepted" ELSE "rejected",
                         !.replaced = [r \in Ranks |->
                                         IF r \in ChainRanks(c) /\ p.valid /\ p.accept
                                         THEN FALSE ELSE @[r]]]
  /\ UNCHANGED cfg

\* aeminvert_pt.cpp:714-753: the hierarchical step of a chain and its record
Hierarchical(c) ==
  /\ pc[Root(c)] = "hier"
  /\ \A r \in ChainRanks(c) : pc[r] = "hier"
  /\ \E p \in HierarchicalProposals(global[Root(c)]) :
     \E io \in IoOutcomes(ChainHistoryFull(ch[c])) :
       LET root == Root(c)
           next == AfterHierarchical(iter[root])
           fresh == RefreshResiduals(global[root])
           like == HierarchicalLikelihoodValue(fresh, p.value)
           norm == HierarchicalLikelihoodNorm(p.value)
           g2 == [r \in Ranks |->
                    IF r \in ChainRanks(c)
                    THEN HierarchicalStep(global[r], ChainRank(r), p, like, norm)
                    ELSE global[r]]
           out == RootAppend(ch[c], fp_ch[c],
                             HierarchicalRecord(g2[root], "hierarchical", p,
                                                global[root].lambda_scale,
                                                trace.appended[c] + 1), io)
           failed == IF out.status = "failed" THEN {root} ELSE {}
           crashed == IF out.status = "crashed" THEN {root} ELSE {}
           appends == out.status = "ok"
       IN /\ global' = g2
          /\ ch' = IF appends THEN [ch EXCEPT ![c] = out.h] ELSE ch
          /\ fp_ch' = IF appends THEN [fp_ch EXCEPT ![c] = out.f] ELSE fp_ch
          /\ pc' = Positions(ChainRanks(c), failed, crashed, next)
          /\ iter' = Iterations(ChainRanks(c), failed \cup crashed, next)
          /\ trace' = [trace EXCEPT
                         !.appended[c] = IF appends THEN @ + 1 ELSE @,
                         !.hier_eval[c] =
                            IF ~fresh.residuals_valid THEN "stale"
                            ELSE IF global[root].residuals_valid THEN "valid" ELSE "refreshed",
                         !.replaced = [r \in Ranks |->
                                         IF r \in ChainRanks(c) /\ ~global[r].residuals_valid
                                         THEN FALSE ELSE @[r]]]
  /\ UNCHANGED <<cfg, khistogram>>

\* aeminvert_pt.cpp:758-799: the hierarchical-prior step of a chain and its record
HierarchicalPrior(c) ==
  /\ pc[Root(c)] = "hprior"
  /\ \A r \in ChainRanks(c) : pc[r] = "hprior"
  /\ \E accept \in BOOLEAN :
     \E io \in IoOutcomes(ChainHistoryFull(ch[c])) :
       LET root == Root(c)
           next == AfterHierarchicalPrior(iter[root])
           out == RootAppend(ch[c], fp_ch[c],
                             HierarchicalRecord(global[root], "hierarchical_prior",
                                                [value |-> 0, accept |-> accept], 0,
                                                trace.appended[c] + 1), io)
           failed == IF out.status = "failed" THEN {root} ELSE {}
           crashed == IF out.status = "crashed" THEN {root} ELSE {}
           appends == out.status = "ok"
       IN /\ ch' = IF appends THEN [ch EXCEPT ![c] = out.h] ELSE ch
          /\ fp_ch' = IF appends THEN [fp_ch EXCEPT ![c] = out.f] ELSE fp_ch
          /\ pc' = Positions(ChainRanks(c), failed, crashed, next)
          /\ iter' = Iterations(ChainRanks(c), failed \cup crashed, next)
          /\ trace' = [trace EXCEPT !.appended[c] = IF appends THEN @ + 1 ELSE @]
  /\ UNCHANGED <<cfg, global, khistogram>>

\* A replaced model on the ranks of the chains in renewed, each taken from the root
\* of its donor chain, with the residuals invalidated (aeminvert_pt.cpp:812-814, 846-848)
Transplant(renewed, donor) ==
  [r \in Ranks |->
     IF ChainId(r) \in renewed
     THEN InvalidateResiduals(ReceiveModel(global[r], global[Root(donor[ChainId(r)])]))
     ELSE global[r]]

\* The chain-history flush of the roots of the renewed chains; the roots in bad
\* see the write fail
Reinitialised(renewed, bad, g2) ==
  [c \in Chains |->
     IF c \in renewed /\ ~cfg.posteriork
     THEN RootReinitialise(ch[c], fp_ch[c], g2[Root(c)], c \notin bad)
     ELSE [h |-> ch[c], f |-> fp_ch[c], status |-> "ok"]]

NewModel(renewed, donor, bad, next) ==
  LET g2 == Transplant(renewed, donor)
      out == Reinitialised(renewed, bad, g2)
      failed == {Root(c) : c \in bad}
  IN /\ global' = g2
     /\ ch' = [c \in Chains |-> out[c].h]
     /\ fp_ch' = [c \in Chains |-> out[c].f]
     /\ pc' = Positions(Ranks, failed, {}, next)
     /\ iter' = Iterations(Ranks, failed, next)
     /\ trace' = [trace EXCEPT
                    !.replaced = [r \in Ranks |-> @[r] \/ ChainId(r) \in renewed],
                    !.renewed = [c \in Chains |-> @[c] \/ c \in renewed],
                    !.hier_eval = [c \in Chains |-> IF c \in renewed THEN "none" ELSE @[c]]]
     /\ UNCHANGED <<cfg, khistogram>>

\* aeminvert_pt.cpp:804-838: the PT exchange of all chains
Exchange ==
  /\ \A r \in Ranks : pc[r] = "exchange"
  /\ \E m \in Pairings :
     \E a \in Swaps(m) :
       LET renewed == {c \in Chains : a[c]}
       IN \E bad \in SUBSET (IF cfg.posteriork \/ ~cfg.io_fails THEN {} ELSE renewed) :
            NewModel(renewed, m, bad, AfterExchange(iter[0]))

\* aeminvert_pt.cpp:840-870: the resampling of all chains
Resample ==
  /\ \A r \in Ranks : pc[r] = "resample"
  /\ \E d \in Donors :
       LET renewed == {c \in Chains : d[c] # c}
       IN \E bad \in SUBSET (IF cfg.posteriork \/ ~cfg.io_fails THEN {} ELSE renewed) :
            NewModel(renewed, d, bad, AfterResample(iter[0]))

\* aeminvert_pt.cpp:904-1001: the output of the chain root and the end of main on
\* the ranks of a chain that left the loop; nothing here waits for another rank
Finish(c) ==
  /\ \E r \in ChainRanks(c) : pc[r] = "finish"
  /\ \A r \in ChainRanks(c) : pc[r] \in {"finish", "failed", "crashed"}
  /\ \E io \in IoOutcomes(~cfg.posteriork /\ pc[Root(c)] = "finish" /\ ch[c].nsteps > 1) :
       LET writes == ~cfg.posteriork /\ pc[Root(c)] = "finish"
           out == IF writes
                  THEN RootFinish(ch[c], fp_ch[c], io)
                  ELSE [h |-> ch[c], f |-> fp_ch[c], status |-> "ok"]
           failed == IF out.status = "ok" THEN {} ELSE {Root(c)}
       IN /\ fp_ch' = [fp_ch EXCEPT ![c] = out.f]
          /\ pc' = [r \in Ranks |->
                      IF r \in failed THEN "failed"
                      ELSE IF r \in ChainRanks(c) /\ pc[r] = "finish" THEN "done"
                      ELSE pc[r]]
  /\ UNCHANGED <<cfg, iter, global, ch, khistogram, trace>>

Next ==
  \/ \E r \in Ranks : CheckLayout(r)
  \/ Setup
  \/ \E c \in Chains : Barrier(c)
  \/ \E c \in Chains : Move(c)
  \/ \E c \in Chains : Hierarchical(c)
  \/ \E c \in Chains : HierarchicalPrior(c)
  \/ Exchange
  \/ Resample
  \/ \E c \in Chains : Finish(c)

Spec == Init /\ [][Next]_vars

\* The same runs with writes to ch.dat that may fail (chain_history_write < 0)
ConfigsIo ==
  {Config(l, m, TRUE) : l \in Layouts, m \in {n \in Modes : ~n.posteriork /\ n.kmax = 1}}

InitIo ==
  /\ cfg \in ConfigsIo
  /\ pc = [r \in Ranks |-> "start"]
  /\ iter = [r \in Ranks |-> -1]
  /\ global = <<>>
  /\ ch = <<>>
  /\ fp_ch = <<>>
  /\ khistogram = <<>>
  /\ trace = <<>>

SpecIo == InitIo /\ [][Next]_vars

\* The positions at which a rank has left main()
Terminated == {"rejected", "failed", "crashed", "done"}

\* C7: once a rank has hit a fatal error in the iteration loop, no rank stays
\* blocked in a collective: either every rank has terminated or some rank can
\* still take a step
C7FailurePropagates ==
  (\E q \in Ranks : pc[q] = "failed") =>
     ((\A r \in Ranks : pc[r] \in Terminated) \/ ENABLED Next)

\* ------------------------------------------------------------ properties
Constructed == global # <<>>

Sampling == {"move", "hier", "hprior", "exchange", "resample", "finish", "done"}

\* C1: when a birth, death or value step that recomputed the likelihood is
\* rejected, residual and residual_normed are rolled back: after the step they
\* equal last_valid_residual and last_valid_residual_normed on every rank of the chain
C1RejectRollsBack ==
  [][\A c \in Chains :
       (pc[Root(c)] = "move" /\ pc'[Root(c)] # "move" /\ trace'.last_move[c] = "rejected") =>
          \A r \in ChainRanks(c) :
             /\ global'[r].residual = global'[r].last_valid_residual
             /\ global'[r].residual_normed = global'[r].last_valid_residual_normed]_vars

\* C2: a rank whose model was replaced by a PT exchange or a resample has
\* residuals_valid false until a full likelihood is accepted; a hierarchical
\* likelihood that starts with residuals_valid false recomputes the residuals and
\* marks them valid on every rank of the chain, and never sums last_valid_residual
\* while the flag is false
C2ResidualValidity ==
  Constructed =>
    /\ \A r \in Ranks : trace.replaced[r] => ~global[r].residuals_valid
    /\ \A c \in Chains : trace.hier_eval[c] # "stale"
    /\ \A c \in Chains :
         trace.hier_eval[c] = "refreshed" =>
            \A r \in ChainRanks(c) :
               /\ global[r].residuals_valid
               /\ global[r].last_valid_residual =
                    [col \in 1 .. Len(global[r].residual) |-> LocalResidual(global[r].wt, col)]

C2Witness ==
  /\ Constructed
  /\ \E c \in Chains : trace.renewed[c] /\ trace.hier_eval[c] = "refreshed"

\* C3: after a PT exchange or a resample replaced the model of a chain, the ring
\* of the chain root was re-initialised from the new tree, likelihood, temperature
\* and lambda_scale before any later record was appended: the records of the ring
\* applied to the base state of the ring give the tree of the root, and a ring
\* without records carries the root's likelihood, temperature and lambda_scale
C3SegmentBase ==
  (Constructed /\ ~cfg.posteriork) =>
    \A c \in Chains :
      LET g == global[Root(c)]
      IN /\ Replay(ch[c].S_v, ch[c].steps, Len(ch[c].steps)) = g.wt
         /\ ch[c].steps = <<>> =>
              /\ ch[c].likelihood = g.current_likelihood
              /\ ch[c].temperature = g.temperature
              /\ ch[c].hierarchical = g.lambda_scale

C3Witness ==
  /\ Constructed
  /\ ~cfg.posteriork
  /\ \E c \in Chains :
       /\ trace.renewed[c]
       /\ ch[c].steps # <<>>
       /\ ch[c].S_v # InitialTree
       /\ fp_ch[c].segments > 0

\* C4: every record a chain root appended to the ring is written to ch.dat exactly
\* once and in append order: while the file is open the written records followed
\* by the records pending in the ring are the appended records in order, and once
\* the file is closed the written records are all the appended records in order
C4Lossless ==
  (Constructed /\ ~cfg.posteriork) =>
    \A c \in Chains :
      LET pending == [n \in 1 .. Len(ch[c].steps) |-> ch[c].steps[n].id]
          appended == [n \in 1 .. trace.appended[c] |-> n]
      IN IF pc[Root(c)] = "done"
         THEN fp_ch[c].ids = appended
         ELSE fp_ch[c].ids \o pending = appended

C4Witness ==
  /\ Constructed
  /\ ~cfg.posteriork
  /\ \E c \in Chains :
       /\ pc[Root(c)] = "done"
       /\ fp_ch[c].segments >= 2
       /\ trace.appended[c] >= 3
       /\ ~trace.renewed[c]

\* C5: every record in the ring of a chain root carries the temperature of the
\* root's replica, and the last record the likelihood and lambda_scale of the root
C5RecordsCarryTemperature ==
  (Constructed /\ ~cfg.posteriork) =>
    \A c \in Chains :
      LET g == global[Root(c)]
          n == Len(ch[c].steps)
      IN /\ \A k \in 1 .. n : ch[c].steps[k].temperature = g.temperature
         /\ n > 0 =>
              /\ ch[c].steps[n].likelihood = g.current_likelihood
              /\ ch[c].steps[n].hierarchical = g.lambda_scale

\* C6: a posteriork run never reads the image, the residual buffers or their
\* size, which only a run without posteriork allocates and sets
C6PosteriorkTouchesNoBuffer ==
  (Constructed /\ cfg.posteriork) => ~trace.null_access

\* C8: a rank goes past the layout checks only if temperatures x chains is
\* non-zero, even and divides the number of ranks; otherwise every rank stops
\* before any Global is constructed; chains = 1 with temperatures = 1 is rejected
C8LayoutGate ==
  LET n == cfg.temperatures * cfg.chains
      valid == n # 0 /\ n % 2 = 0 /\ cfg.mpi_size % n = 0
  IN /\ (\E r \in Ranks : pc[r] \notin {"start", "rejected"}) => valid
     /\ ~valid => (~Constructed /\ \A r \in Ranks : pc[r] \in {"start", "rejected"})
     /\ (cfg.temperatures = 1 /\ cfg.chains = 1) =>
          \A r \in Ranks : pc[r] \in {"start", "rejected"}

C8Witness ==
  /\ cfg.temperatures = 1
  /\ cfg.chains = 1
  /\ cfg.mpi_size % 2 = 0
  /\ \A r \in Ranks : pc[r] = "rejected"

\* C9 as stated: replicas wait for one another only at swap points, so a chain
\* whose ranks are at the top of an iteration that does not follow an exchange or a
\* resample is never held there by a rank of another chain
C9OnlySwapPointsSynchronise ==
  Constructed =>
    \A c \in Chains :
      LET i == iter[Root(c)]
      IN ((\A r \in ChainRanks(c) : pc[r] = "barrier")
            /\ i > 0 /\ ~ExchangeDue(i - 1) /\ ~ResampleDue(i - 1)) =>
         \A q \in Ranks : BarrierArrived(q, i)

\* C9 amended: replicas also wait for one another at the top of every iteration:
\* a rank is in the steps of iteration i only if every rank has entered iteration i
C9BarrierEveryIteration ==
  Constructed =>
    \A r \in Ranks : pc[r] \in Sampling => \A q \in Ranks : iter[q] >= iter[r]

C9Witness ==
  /\ Constructed
  /\ cfg.exchange_rate = MaxRate
  /\ \E r \in Ranks : pc[r] = "move" /\ iter[r] = 1

\* C10: after setup the temperature of a rank is the ladder value of its position,
\* temp_id = chain_id / chains, which is 1 for temp_id 0, whatever moves,
\* exchanges, resamples and ring re-initialisations have happened
C10TemperatureFixed ==
  Constructed =>
    \A r \in Ranks :
      LET temp_id == (r \div (cfg.mpi_size \div (cfg.temperatures * cfg.chains))) \div cfg.chains
      IN /\ global[r].temperature = LadderTemperature(temp_id)
         /\ temp_id = 0 => global[r].temperature = 1

C10Witness ==
  /\ Constructed
  /\ \E r \in Ranks :
       /\ trace.replaced[r]
       /\ global[r].temperature = TemperatureBase
       /\ global[r].wt # InitialTree

\* ------------------------------------------------------------ one column, one system
\* Global::likelihood and Global::likelihood_mpi on a single-rank communicator,
\* for one column and one forward-model system: cfg is the input, global the
\* two results
MaxWindows == 2

Directions == {"DIRECTION_X", "DIRECTION_Y", "DIRECTION_Z"}

\* cTDEmSystem::forwardmodel: the predicted response in each direction
ForwardModel(in) ==
  [SX |-> [l \in 1 .. in.nx |-> in.model],
   SY |-> [l \in 1 .. in.ny |-> in.model],
   SZ |-> [l \in 1 .. in.nz |-> in.model]]

\* aemresponse: the observed response r.response
ObservedResponse(in) == [l \in 1 .. in.nobs |-> l]

DirectionResponse(response, d) ==
  CASE d = "DIRECTION_X" -> response.SX
    [] d = "DIRECTION_Y" -> response.SY
    [] OTHER -> response.SZ

\* hierarchicalmodel::nll over the windows of r.response: the whitened residuals,
\* their sum of squares and the log-normalization
Nll(in, residual) ==
  LET normed == [l \in 1 .. in.nobs |-> Whiten(residual[l], in.lambda_scale)]
  IN [residual |-> residual,
      residual_normed |-> normed,
      like |-> SumSq(normed, in.nobs),
      log_normalization |-> in.nobs * in.lambda_scale,
      status |-> "ok"]

Thrown == [residual |-> <<>>, residual_normed |-> <<>>, like |-> 0,
           log_normalization |-> 0, status |-> "throw"]

Overrun == [residual |-> <<>>, residual_normed |-> <<>>, like |-> 0,
            log_normalization |-> 0, status |-> "overrun"]

\* The buffer before the call: what an earlier evaluation left in residual
StaleResidual(in) == [l \in 1 .. in.nobs |-> in.stale]

\* global.cpp:408-466: the serial likelihood writes one entry per window of the
\* response in the direction of the observation
SerialResults(in) ==
  LET predicted == DirectionResponse(ForwardModel(in), in.d)
      observed == ObservedResponse(in)
  IN IF in.nobs # Len(predicted)
     THEN {Thrown}
     ELSE {Nll(in, [l \in 1 .. in.nobs |->
                      IF l <= Len(predicted) THEN observed[l] - predicted[l]
                      ELSE StaleResidual(in)[l]])}

\* global.cpp:663-717: the same in likelihood_mpi, except that the loop of the
\* DIRECTION_Z branch runs to response.SY.size(); entries it does not reach keep
\* what the buffer held, and a loop that runs past response.SZ reads and writes
\* out of bounds
MpiLoopBound(in) ==
  CASE in.d = "DIRECTION_X" -> in.nx
    [] in.d = "DIRECTION_Y" -> in.ny
    [] OTHER -> in.ny

MpiResults(in) ==
  LET predicted == DirectionResponse(ForwardModel(in), in.d)
      observed == ObservedResponse(in)
      written == Nll(in, [l \in 1 .. in.nobs |->
                            IF l <= MpiLoopBound(in) THEN observed[l] - predicted[l]
                            ELSE StaleResidual(in)[l]])
  IN IF in.nobs # Len(predicted)
     THEN {Thrown}
     ELSE IF MpiLoopBound(in) > Len(predicted)
          THEN {written, Overrun}
          ELSE {written}

LikelihoodInputs ==
  [d : Directions, nx : 1 .. MaxWindows, ny : 1 .. MaxWindows, nz : 1 .. MaxWindows,
   nobs : 1 .. MaxWindows, model : Values, stale : {0} \cup Values,
   lambda_scale : Lambdas]

InitLikelihood ==
  /\ cfg \in LikelihoodInputs
  /\ pc = [serial |-> "start", mpi |-> "start"]
  /\ global = [serial |-> Thrown, mpi |-> Thrown]
  /\ iter = <<>>
  /\ ch = <<>>
  /\ fp_ch = <<>>
  /\ khistogram = <<>>
  /\ trace = <<>>

CallLikelihood ==
  /\ pc.serial = "start"
  /\ \E out \in SerialResults(cfg) :
       global' = [global EXCEPT !.serial = out]
  /\ pc' = [pc EXCEPT !.serial = "done"]
  /\ UNCHANGED <<cfg, iter, ch, fp_ch, khistogram, trace>>

CallLikelihoodMpi ==
  /\ pc.mpi = "start"
  /\ \E out \in MpiResults(cfg) :
       global' = [global EXCEPT !.mpi = out]
  /\ pc' = [pc EXCEPT !.mpi = "done"]
  /\ UNCHANGED <<cfg, iter, ch, fp_ch, khistogram, trace>>

NextLikelihood == CallLikelihood \/ CallLikelihoodMpi

SpecLikelihood == InitLikelihood /\ [][NextLikelihood]_vars

\* C11: on a single-rank communicator likelihood_mpi leaves the same residual and
\* residual_normed and returns the same likelihood and log-normalization as the
\* serial likelihood, in every direction and for all sizes of SX, SY and SZ
C11SingleRankAgrees ==
  (pc.serial = "done" /\ pc.mpi = "done") => global.serial = global.mpi

\* ------------------------------------------------------------ a loaded initial model
\* global.cpp:229-235: with --initial-model the tree is read from a file by
\* wavetree2d_sub_load_promote, which takes the tree and the file name only; the
\* file holds any tree with its root and the parent of each of its indices (here
\* with every coefficient at the value of the default root)
InitialModels ==
  {S \in UNION {[D -> {1}] : D \in SUBSET (0 .. (NCoeff - 1))} :
     /\ 0 \in DOMAIN S
     /\ \A i \in DOMAIN S : i = 0 \/ ParentOf(i) \in DOMAIN S}

ConfigsInitialModel ==
  {[Config(l, Mode(FALSE, FALSE, FALSE, FALSE, 1, kmax), FALSE) EXCEPT !.initial_model = {S}] :
     l \in Layouts, kmax \in 1 .. NCoeff, S \in InitialModels}

InitInitialModel ==
  /\ cfg \in ConfigsInitialModel
  /\ pc = [r \in Ranks |-> "start"]
  /\ iter = [r \in Ranks |-> -1]
  /\ global = <<>>
  /\ ch = <<>>
  /\ fp_ch = <<>>
  /\ khistogram = <<>>
  /\ trace = <<>>

\* The steps of a run without the hierarchical steps and without resampling
NextInitialModel ==
  \/ \E r \in Ranks : CheckLayout(r)
  \/ Setup
  \/ \E c \in Chains : Barrier(c)
  \/ \E c \in Chains : Move(c)
  \/ Exchange
  \/ \E c \in Chains : Finish(c)

SpecInitialModel == InitInitialModel /\ [][NextInitialModel]_vars

\* C12: once a chain has made a move step, the coefficient count k of its tree
\* is in 1 .. kmax and every khistogram[k - 1] update has stayed inside the
\* kmax entries of the histogram, whatever model the chain started from.
C12CoefficientCountInRange ==
  Constructed =>
    /\ ~trace.khistogram_overrun
    /\ \A c \in Chains :
         trace.last_move[c] # "none" =>
           /\ CoeffCount(global[Root(c)].wt) \in 1 .. Kmax
           /\ CoeffCount(global[Root(c)].wt) \in DOMAIN khistogram[c]

\* aeminvert_pt.cpp:911-913: the kmax lines of khistogram.txt, added up
RECURSIVE KhistogramTotal(_, _)
KhistogramTotal(h, n) == IF n = 0 THEN 0 ELSE h[n] + KhistogramTotal(h, n - 1)

\* C14: when a chain root has left the loop of total iterations, the kmax entries
\* of its khistogram sum to total.
C14KhistogramSumsToTotal ==
  \A c \in Chains :
    pc[Root(c)] \in {"finish", "done"} => KhistogramTotal(khistogram[c], cfg.kmax) = cfg.total

\* ------------------------------------------------------------ the pixel sampler
\* Pixel values are counted in units finer than the last decimal that ch.dat
\* keeps: FileUnit of them make one unit of the ninth decimal of "%15.9f".
PixelCount == 2
MaxPixelValue == 3
PixelPriorMin == 1
PixelTotal == 3
FileUnit == 2

PixelValues == 0 .. MaxPixelValue

\* part_009:136,143: fprintf "%15.9f" keeps the nearest value of nine decimals
FileValue(v) == ((2 * v + FileUnit) \div (2 * FileUnit)) * FileUnit

\* part_000:1210-1227: the location, the proposed value and its test against the prior
PixelProposals(image) ==
  {q \in [idx : 1 .. PixelCount, newvalue : PixelValues, valid : BOOLEAN, accept : BOOLEAN] :
     /\ q.newvalue # image[q.idx]
     /\ q.valid = (q.newvalue >= cfg.prior_min /\ q.newvalue <= cfg.prior_max)
     /\ (~q.valid => ~q.accept)}

\* part_000:1101-1176: a rejected proposal keeps the perturbed value
ValuePixelStepNoRestore(image, q) ==
  [image |-> IF q.valid THEN [image EXCEPT ![q.idx] = q.newvalue] ELSE image,
   pb |-> [accepted |-> q.valid /\ q.accept,
           idx |-> q.idx,
           oldvalue |-> image[q.idx],
           newvalue |-> q.newvalue]]

\* part_000:1101-1176 ValuePixel::step on rank 0: the image after the step and the
\* perturbation it reports
ValuePixelStep(image, q) ==
  [image |-> IF q.valid /\ q.accept THEN [image EXCEPT ![q.idx] = q.newvalue] ELSE image,
   pb |-> [accepted |-> q.valid /\ q.accept,
           idx |-> q.idx,
           oldvalue |-> image[q.idx],
           newvalue |-> q.newvalue]]

\* part_000:1130: on a rank other than 0 value_idx is set by the broadcast of a
\* valid proposal only; with an invalid one conductivity[value_idx] is read at an
\* indeterminate index, and the rank goes on or stops there
FollowerReadsIndeterminate(q) == cfg.mpi_size > 1 /\ ~q.valid

\* part_009:61-71: the history starts from the image the sampler starts from
NewChainHistoryPixel(image) == [initial_image |-> image, history |-> <<>>]

\* part_009:121-149 save, then part_009:73-119 load: the text of ch.dat read back
ChainHistoryPixelSaveLoad(h) ==
  [initial_image |-> [j \in 1 .. PixelCount |-> FileValue(h.initial_image[j])],
   history |-> [n \in 1 .. Len(h.history) |->
                  [h.history[n] EXCEPT !.oldvalue = FileValue(@), !.newvalue = FileValue(@)]]]

\* postprocess_pixel_mean.cpp:250-277: the image the postprocessor holds after
\* the first k records of a history
RECURSIVE ReplayPixel(_, _)
ReplayPixel(h, k) ==
  IF k = 0
  THEN h.initial_image
  ELSE LET image == ReplayPixel(h, k - 1)
           pp == h.history[k]
       IN IF pp.accepted THEN [image EXCEPT ![pp.idx] = pp.newvalue] ELSE image

PixelInputs ==
  [mpi_size : 1 .. 2,
   total : {PixelTotal},
   prior_min : {PixelPriorMin},
   prior_max : {MaxPixelValue},
   initial : [1 .. PixelCount -> PixelPriorMin .. (PixelPriorMin + 1)]]

\* aeminvert_pixel.cpp:254-286: the state before the first iteration.  global
\* is the sampler on rank 0, ch its history in memory, fp_ch the file ch.dat,
\* trace the images the sampler held, khistogram the images of the replay
InitPixel ==
  /\ cfg \in PixelInputs
  /\ pc = "loop"
  /\ iter = 0
  /\ global = [image |-> cfg.initial]
  /\ ch = NewChainHistoryPixel(cfg.initial)
  /\ fp_ch = <<>>
  /\ trace = <<cfg.initial>>
  /\ khistogram = <<>>

\* aeminvert_pixel.cpp:288-309: one iteration, value.step(pb) then push_back(pb)
PixelIteration ==
  /\ pc = "loop"
  /\ iter < cfg.total
  /\ \E q \in PixelProposals(global.image) :
     \E down \in (IF FollowerReadsIndeterminate(q) THEN BOOLEAN ELSE {FALSE}) :
       LET out == ValuePixelStep(global.image, q)
       IN IF down
          THEN /\ pc' = "crashed"
               /\ UNCHANGED <<iter, global, ch, trace>>
          ELSE /\ global' = [global EXCEPT !.image = out.image]
               /\ ch' = [ch EXCEPT !.history = Append(@, out.pb)]
               /\ trace' = Append(trace, out.image)
               /\ iter' = iter + 1
               /\ pc' = pc
  /\ UNCHANGED <<cfg, fp_ch, khistogram>>

\* aeminvert_pixel.cpp:311-328: after the loop rank 0 saves the history to ch.dat
PixelSave ==
  /\ pc = "loop"
  /\ iter = cfg.total
  /\ fp_ch' = ChainHistoryPixelSaveLoad(ch)
  /\ pc' = "saved"
  /\ UNCHANGED <<cfg, iter, global, ch, trace, khistogram>>

\* postprocess_pixel_mean.cpp:237-308: the postprocessor loads ch.dat and replays it
PixelPostprocess ==
  /\ pc = "saved"
  /\ khistogram' = [k \in 0 .. Len(fp_ch.history) |-> ReplayPixel(fp_ch, k)]
  /\ pc' = "done"
  /\ UNCHANGED <<cfg, iter, global, ch, fp_ch, trace>>

NextPixel == PixelIteration \/ PixelSave \/ PixelPostprocess

SpecPixel == InitPixel /\ [][NextPixel]_vars

\* C15 as stated: the replay of the saved history holds after the k-th record
\* exactly the image the sampler held after its k-th step, and the history has
\* one record per iteration.
C15ReplayExact ==
  pc = "done" =>
    /\ Len(fp_ch.history) = cfg.total
    /\ \A k \in 0 .. cfg.total : khistogram[k] = trace[k + 1]

\* C15 amended: the replay of the saved history holds after the k-th record the
\* image the sampler held after its k-th step with every pixel rounded to the
\* nine decimals of ch.dat, the history has one record per iteration, and the
\* history in memory replays to the sampler's images exactly.
C15ReplayToFilePrecision ==
  /\ pc = "done" =>
       /\ Len(fp_ch.history) = cfg.total
       /\ \A k \in 0 .. cfg.total :
            khistogram[k] = [j \in 1 .. PixelCount |-> FileValue(trace[k + 1][j])]
  /\ pc \in {"loop", "saved", "done"} =>
       /\ Len(ch.history) = iter
       /\ \A k \in 0 .. iter : ReplayPixel(ch, k) = trace[k + 1]

C15Witness ==
  /\ pc = "done"
  /\ \E n \in 1 .. cfg.total : fp_ch.history[n].accepted
  /\ \E n \in 1 .. cfg.total : ~fp_ch.history[n].accepted /\ n > 1
  /\ khistogram[cfg.total] # trace[cfg.total + 1]

\* ------------------------------------------------------------ the postprocessors
\* postprocess_mean_mpi (part_000) on PostRanks ranks at most, each replaying the
\* chain history of its own chain, and postprocess_pixel_mean on one process.
\* The ranks work on their own data until the MPI_Reduce of the histograms, so
\* they are taken one after the other, rank 0 first.
PostRanks == 40
PostPixels == 2
HistBins == 2
HistVmin == 0
MaxRecords == 2
MaxSkip == 1
MaxThin == 2

PostPixelSet == 1 .. PostPixels
SampleValues == (HistVmin - 1) .. (HistVmin + HistBins)
SampleImages == [PostPixelSet -> SampleValues]

\* (int) of a quotient: the fraction is dropped towards zero
Truncate(num, den) == IF num < 0 THEN -((-num) \div den) ELSE num \div den

\* part_000:856-871 without the two range tests
HistogramIndexUnclamped(v, vmin, vmax, bins) == Truncate(bins * (v - vmin), vmax - vmin)

\* part_000:856-871, postprocess_pixel_mean.cpp:487-502 histogram_index
HistogramIndex(v, vmin, vmax, bins) ==
  LET i == Truncate(bins * (v - vmin), vmax - vmin)
  IN IF i < 0 THEN 0 ELSE IF i > bins - 1 THEN bins - 1 ELSE i

\* part_000:386-418, postprocess_pixel_mean.cpp:258-270: the counters and the
\* histograms of a process before its first record
NewUserData ==
  [thincounter |-> 0, counter |-> 0,
   hist |-> [j \in PostPixelSet |-> [b \in 0 .. (cfg.bins - 1) |-> 0]]]

\* part_000:791 and postprocess_pixel_mean.cpp:282-284: is this record sampled
Recorded(d) ==
  IF cfg.program = "postprocess_mean_mpi"
  THEN d.thincounter >= cfg.skip /\ (cfg.thin <= 1 \/ d.thincounter % cfg.thin = 0)
  ELSE d.thincounter > cfg.skip
         /\ (cfg.thin <= 1 \/ (d.thincounter - cfg.skip) % cfg.thin = 0)

\* part_000:826-849: one bin of each pixel is incremented
UpdateHistogram(hist, image) ==
  [j \in PostPixelSet |->
     LET hi == HistogramIndex(image[j], cfg.vmin, cfg.vmax, cfg.bins)
     IN [b \in DOMAIN hist[j] |-> IF b = hi THEN hist[j][b] + 1 ELSE hist[j][b]]]

\* part_000:780-854 process, postprocess_pixel_mean.cpp:272-308: one record
Process(d, image) ==
  IF Recorded(d)
  THEN [thincounter |-> d.thincounter + 1,
        counter |-> d.counter + 1,
        hist |-> UpdateHistogram(d.hist, image)]
  ELSE [d EXCEPT !.thincounter = @ + 1]

\* part_000:567-575: MPI_Reduce with MPI_SUM of each pixel's bins into rank 0
ReduceHistogram(into, hist) ==
  [j \in PostPixelSet |-> [b \in DOMAIN into[j] |-> into[j][b] + hist[j][b]]]

\* part_000:624 with mpi_size ranks, postprocess_pixel_mean.cpp:417 with one:
\* (int)(counter * mpi_size * (1.0 - CREDIBLE_INTERVAL) / 2.0), CREDIBLE_INTERVAL = 0.95
CredibleDrop(counter, mpi_size) == (counter * mpi_size * 5) \div 200

\* part_000:921-938 head_from_histogram: the bin the walk from the bottom stops at
RECURSIVE HeadWalk(_, _, _, _, _)
HeadWalk(hist, bins, drop, i, ci) ==
  IF i < bins /\ ci < drop
  THEN IF hist[i] + ci >= drop THEN i ELSE HeadWalk(hist, bins, drop, i + 1, ci + hist[i])
  ELSE i

\* part_000:940-957 tail_from_histogram: the bin the walk from the top stops at
RECURSIVE TailWalk(_, _, _, _, _)
TailWalk(hist, bins, drop, i, ci) ==
  IF i > 0 /\ ci < drop
  THEN IF hist[i] + ci >= drop THEN i ELSE TailWalk(hist, bins, drop, i - 1, ci + hist[i])
  ELSE i

\* part_000:937,956: (i + 0.5)/bins * (vmax - vmin) + vmin, in units of 1/(2 bins)
BinCentre(i, vmin, vmax, bins) == (2 * i + 1) * (vmax - vmin) + 2 * bins * vmin

head_from_histogram(hist, vmin, vmax, bins, drop) ==
  BinCentre(HeadWalk(hist, bins, drop, 0, 0), vmin, vmax, bins)

tail_from_histogram(hist, vmin, vmax, bins, drop) ==
  BinCentre(TailWalk(hist, bins, drop, bins - 1, 0), vmin, vmax, bins)

\* The runs: the records in the file of rank 0 and in the file of each other
\* rank.  The runs on PostRanks ranks are those where only rank 0 has records.
PostInputs ==
  {c \in [program : {"postprocess_mean_mpi", "postprocess_pixel_mean"},
          mpi_size : {1, 2, PostRanks},
          records : 0 .. MaxRecords,
          other_records : 0 .. 1,
          skip : 0 .. MaxSkip,
          thin : {0, MaxThin},
          bins : {HistBins},
          vmin : {HistVmin},
          vmax : {HistVmin + HistBins}] :
     /\ c.program = "postprocess_pixel_mean" => c.mpi_size = 1
     /\ c.mpi_size = 1 => c.other_records = 0
     /\ c.mpi_size = PostRanks => c.other_records = 0}

FileRecords(rank) == IF rank = 0 THEN cfg.records ELSE cfg.other_records

\* iter is the rank at work, global its user_data, ch the data of rank 0 (its
\* counter and the histograms the reduce sums into), trace the number of samples
\* recorded on all ranks, fp_ch the credible-interval output
InitPost ==
  /\ cfg \in PostInputs
  /\ pc = "process"
  /\ iter = 0
  /\ global = NewUserData
  /\ ch = <<>>
  /\ fp_ch = <<>>
  /\ khistogram = <<>>
  /\ trace = 0

\* part_000:448-472: the next record of the file is read and replayed
PostRecord ==
  /\ pc = "process"
  /\ global.thincounter < FileRecords(iter)
  /\ \E image \in SampleImages :
       /\ global' = Process(global, image)
       /\ trace' = trace + (global'.counter - global.counter)
  /\ UNCHANGED <<cfg, pc, iter, ch, fp_ch, khistogram>>

\* part_000:473-575: the end of the file of a rank and its part of the reduce
PostEndOfFile ==
  /\ pc = "process"
  /\ global.thincounter = FileRecords(iter)
  /\ ch' = IF iter = 0
           THEN [counter |-> global.counter, hist |-> global.hist]
           ELSE [ch EXCEPT !.hist = ReduceHistogram(@, global.hist)]
  /\ IF iter + 1 < cfg.mpi_size
     THEN /\ iter' = iter + 1
          /\ global' = NewUserData
          /\ pc' = pc
     ELSE /\ pc' = "output"
          /\ UNCHANGED <<iter, global>>
  /\ UNCHANGED <<cfg, fp_ch, khistogram, trace>>

\* part_000:621-665, postprocess_pixel_mean.cpp:417-458: credible min and max
PostOutput ==
  /\ pc = "output"
  /\ LET credible_drop == CredibleDrop(ch.counter, cfg.mpi_size)
     IN fp_ch' =
          [credible_drop |-> credible_drop,
           credible_min |-> [j \in PostPixelSet |->
              head_from_histogram(ch.hist[j], cfg.vmin, cfg.vmax, cfg.bins, credible_drop)],
           credible_max |-> [j \in PostPixelSet |->
              tail_from_histogram(ch.hist[j], cfg.vmin, cfg.vmax, cfg.bins, credible_drop)]]
  /\ pc' = "done"
  /\ UNCHANGED <<cfg, iter, global, ch, khistogram, trace>>

NextPost == PostRecord \/ PostEndOfFile \/ PostOutput

SpecPost == InitPost /\ [][NextPost]_vars

RECURSIVE BinTotal(_, _)
BinTotal(h, n) == IF n = 0 THEN 0 ELSE h[n - 1] + BinTotal(h, n - 1)

C17CredibleMinAtMostMax ==
  pc = "done" => \A j \in PostPixelSet : fp_ch.credible_min[j] <= fp_ch.credible_max[j]

\* ------------------------------------------------------------ the seeds of the ranks
\* aeminvert_pt.cpp:183-184, aeminvert_mpi.cpp:160-161
DefaultSeedBase == 983
DefaultSeedMult == 101
SeedRanks == 5

\* a + b in a 32-bit int that wraps, for operands inside the 32-bit range
WrapAdd(a, b) ==
  IF a > 0 /\ b > 0 /\ b > 2147483647 - a
  THEN ((a - 2147483647) - 1) + ((b - 2147483647) - 1)
  ELSE IF a < 0 /\ b < 0 /\ b < ((-2147483647) - 1) - a
  THEN ((a + 2147483647) + 1) + ((b + 2147483647) + 1)
  ELSE a + b

AddOverflows(a, b) ==
  \/ a > 0 /\ b > 0 /\ b > 2147483647 - a
  \/ a < 0 /\ b < 0 /\ b < ((-2147483647) - 1) - a

\* mpi_rank * seed_mult in a 32-bit int that wraps
RECURSIVE WrapTimes(_, _)
WrapTimes(rank, mult) == IF rank = 0 THEN 0 ELSE WrapAdd(WrapTimes(rank - 1, mult), mult)

RECURSIVE TimesOverflows(_, _)
TimesOverflows(rank, mult) ==
  /\ rank > 0
  /\ \/ TimesOverflows(rank - 1, mult)
     \/ AddOverflows(WrapTimes(rank - 1, mult), mult)

\* aeminvert_pt.cpp:277-283 refuses a seed multiplier that is not positive;
\* aeminvert_mpi.cpp:246-248 takes whatever atoi returns
SeedMultAccepted(c) == c.driver = "aeminvert_mpi" \/ c.seed_mult > 0

\* aeminvert_pt.cpp:492, aeminvert_mpi.cpp:358: seed_base + mpi_rank*seed_mult
RankSeed(c, rank) == WrapAdd(c.seed_base, WrapTimes(rank, c.seed_mult))

\* Signed overflow in the expression of the seed is undefined
RankSeedOverflows(c, rank) ==
  \/ TimesOverflows(rank, c.seed_mult)
  \/ AddOverflows(c.seed_base, WrapTimes(rank, c.seed_mult))

SeedInputs ==
  [driver : {"aeminvert_pt", "aeminvert_mpi"},
   seed_base : {0, DefaultSeedBase},
   seed_mult : {-1, 0, 1, DefaultSeedMult, 1073741824},
   mpi_size : 1 .. SeedRanks]

\* pc is the position of each rank, global the seed each rank constructed its
\* Global with
InitSeed ==
  /\ cfg \in SeedInputs
  /\ pc = [r \in 0 .. (cfg.mpi_size - 1) |-> "options"]
  /\ global = <<>>
  /\ iter = <<>>
  /\ ch = <<>>
  /\ fp_ch = <<>>
  /\ khistogram = <<>>
  /\ trace = <<>>

\* aeminvert_pt.cpp:273-283, aeminvert_mpi.cpp:242-248: the seed options
ParseSeedOptions(r) ==
  /\ pc[r] = "options"
  /\ pc' = [pc EXCEPT ![r] = IF SeedMultAccepted(cfg) THEN "construct" ELSE "rejected"]
  /\ UNCHANGED <<cfg, global, iter, ch, fp_ch, khistogram, trace>>

\* aeminvert_pt.cpp:484-498, aeminvert_mpi.cpp:350-362: the Global of a rank.
\* When the expression of the seed overflows the rank gets the wrapped value or
\* stops at the overflow.
ConstructWithSeed(r) ==
  /\ pc[r] = "construct"
  /\ \E trapped \in (IF RankSeedOverflows(cfg, r) THEN BOOLEAN ELSE {FALSE}) :
       IF trapped
       THEN /\ pc' = [pc EXCEPT ![r] = "crashed"]
            /\ UNCHANGED global
       ELSE /\ pc' = [pc EXCEPT ![r] = "constructed"]
            /\ global' = [q \in DOMAIN global \cup {r} |->
                            IF q = r THEN RankSeed(cfg, r) ELSE global[q]]
  /\ UNCHANGED <<cfg, iter, ch, fp_ch, khistogram, trace>>

NextSeed ==
  \/ \E r \in DOMAIN pc : ParseSeedOptions(r)
  \/ \E r \in DOMAIN pc : ConstructWithSeed(r)

SpecSeed == InitSeed /\ [][NextSeed]_vars

\* C18: no two ranks of a run are constructed with the same seed.
C18SeedsDistinct ==
  \A r \in DOMAIN global : \A q \in DOMAIN global : r # q => global[r] # global[q]

\* ------------------------------------------------------------ the output files of aeminvert_mpi
NameRanks == 4
NameChains == 3

RECURSIVE DecimalDigits(_)
DecimalDigits(n) == IF n < 10 THEN <<n>> ELSE Append(DecimalDigits(n \div 10), n % 10)

\* aemutil.cpp:42-53 mkfilenamerank: the file name, then "-%03d" of the rank
mkfilenamerank(file, rank) ==
  [file |-> file,
   suffix |-> IF rank < 10 THEN <<0, 0, rank>>
              ELSE IF rank < 100 THEN <<0>> \o DecimalDigits(rank)
              ELSE DecimalDigits(rank)]

\* aeminvert_mpi.cpp:344-348: the number of chains must divide the number of ranks
MpiLayoutAccepted(c) == c.mpi_size % c.chains = 0

\* aeminvert_mpi.cpp:379-407: global_rank is the chain of a rank, local_rank its
\* rank in the communicator of the chain
MpiGlobalRank(c, r) == IF c.chains = 1 THEN 0 ELSE r \div (c.mpi_size \div c.chains)
MpiLocalRank(c, r) == IF c.chains = 1 THEN r ELSE r % (c.mpi_size \div c.chains)

NameInputs == [mpi_size : 1 .. NameRanks, chains : 1 .. NameChains]

\* pc is the position of each rank and fp_ch the files created so far, each with
\* the chain whose root created it
InitNames ==
  /\ cfg \in NameInputs
  /\ pc = [r \in 0 .. (cfg.mpi_size - 1) |-> "start"]
  /\ fp_ch = {}
  /\ global = <<>>
  /\ iter = <<>>
  /\ ch = <<>>
  /\ khistogram = <<>>
  /\ trace = <<>>

NamesCheckLayout(r) ==
  /\ pc[r] = "start"
  /\ pc' = [pc EXCEPT ![r] = IF MpiLayoutAccepted(cfg) THEN "setup" ELSE "rejected"]
  /\ UNCHANGED <<cfg, fp_ch, global, iter, ch, khistogram, trace>>

\* aeminvert_mpi.cpp:424-441: the root of a chain creates ch.dat
NamesOpenChainHistory(r) ==
  /\ pc[r] = "setup"
  /\ pc' = [pc EXCEPT ![r] = "loop"]
  /\ fp_ch' = IF MpiLocalRank(cfg, r) = 0
              THEN fp_ch \cup {[name |-> mkfilenamerank("ch.dat", MpiGlobalRank(cfg, r)),
                                chain |-> MpiGlobalRank(cfg, r)]}
              ELSE fp_ch
  /\ UNCHANGED <<cfg, global, iter, ch, khistogram, trace>>

\* aeminvert_mpi.cpp:598-654: the root of a chain writes its other files
NamesWriteOutputs(r) ==
  /\ pc[r] = "loop"
  /\ pc' = [pc EXCEPT ![r] = "done"]
  /\ fp_ch' = IF MpiLocalRank(cfg, r) = 0
              THEN fp_ch \cup {[name |-> mkfilenamerank(f, r), chain |-> MpiGlobalRank(cfg, r)] :
                                 f \in {"khistogram.txt", "acceptance.txt", "final_model.txt"}}
              ELSE fp_ch
  /\ UNCHANGED <<cfg, global, iter, ch, khistogram, trace>>

NextNames ==
  \/ \E r \in DOMAIN pc : NamesCheckLayout(r)
  \/ \E r \in DOMAIN pc : NamesOpenChainHistory(r)
  \/ \E r \in DOMAIN pc : NamesWriteOutputs(r)

SpecNames == InitNames /\ [][NextNames]_vars

\* C19: every output file of a chain carries the suffix of the chain's id, so
\* all files of one chain carry the same suffix.
C19OneSuffixPerChain ==
  \A f \in fp_ch : f.name.suffix = mkfilenamerank(f.name.file, f.chain).suffix

\* ------------------------------------------------------------ the serial hierarchical likelihood
\* The trees a chain can hold: the root and the parent of each index
ChainTrees ==
  {S \in UNION {[D -> Values] : D \in SUBSET (0 .. (NCoeff - 1))} :
     /\ 0 \in DOMAIN S
     /\ \A i \in DOMAIN S : i = 0 \/ ParentOf(i) \in DOMAIN S}

\* A Global between two steps: its tree, the residuals of the last likelihood
\* (of the tree proposed) and those of the last accept (of the tree accepted)
GlobalBetweenSteps(S, proposed, accepted, lambda_scale, residuals_valid) ==
  IF cfg.posteriork
  THEN [NewGlobal EXCEPT !.wt = S, !.lambda_scale = lambda_scale,
                         !.residuals_valid = residuals_valid]
  ELSE [NewGlobal EXCEPT
          !.wt = S,
          !.lambda_scale = lambda_scale,
          !.residuals_valid = residuals_valid,
          !.residual = [col \in 1 .. Width |-> LocalResidual(proposed, col)],
          !.residual_normed =
             [col \in 1 .. Width |-> Whiten(LocalResidual(proposed, col), lambda_scale)],
          !.last_valid_residual = [col \in 1 .. Width |-> LocalResidual(accepted, col)],
          !.last_valid_residual_normed =
             [col \in 1 .. Width |-> Whiten(LocalResidual(accepted, col), lambda_scale)]]

\* global.cpp:492-496 and 400-408: the forward model runs once for each column
\* when the residuals are recomputed, and not at all otherwise
HierarchicalLikelihoodForwardCalls(g) ==
  IF ~cfg.posteriork /\ ~g.residuals_valid THEN Width ELSE 0

ConfigsHierarchical ==
  {Config(l, m, FALSE) : l \in {n \in Layouts : LayoutAccepted(n) /\ n.mpi_size = MaxRanks},
                         m \in {n \in Modes : n.hierarchical}}

\* global is one Global object, pc the position of its caller, trace what the
\* call was given and what it returned
InitHierarchicalLikelihood ==
  /\ cfg \in ConfigsHierarchical
  /\ pc = "ready"
  /\ \E S \in ChainTrees, proposed \in ChainTrees, accepted \in ChainTrees :
     \E lambda_scale \in Lambdas, residuals_valid \in BOOLEAN :
       global = GlobalBetweenSteps(S, proposed, accepted, lambda_scale, residuals_valid)
  /\ trace = <<>>
  /\ iter = <<>>
  /\ ch = <<>>
  /\ fp_ch = <<>>
  /\ khistogram = <<>>

\* global.cpp:484-528: one call of hierarchical_likelihood
CallHierarchicalLikelihood ==
  /\ pc = "ready"
  /\ \E proposed_lambda_scale \in Lambdas :
       LET g1 == IF ~cfg.posteriork /\ ~global.residuals_valid
                 THEN Accept(Likelihood(global)) ELSE global
       IN /\ global' = HierarchicalLikelihood(global, proposed_lambda_scale)
          /\ trace' = [residuals_valid |-> global.residuals_valid,
                       proposed_lambda_scale |-> proposed_lambda_scale,
                       returned |-> HierarchicalLikelihoodValue(g1, proposed_lambda_scale),
                       log_normalization |-> HierarchicalLikelihoodNorm(proposed_lambda_scale),
                       forward_calls |-> HierarchicalLikelihoodForwardCalls(global)]
  /\ pc' = "returned"
  /\ UNCHANGED <<cfg, iter, ch, fp_ch, khistogram>>

NextHierarchicalLikelihood == CallHierarchicalLikelihood

SpecHierarchicalLikelihood == InitHierarchicalLikelihood /\ [][NextHierarchicalLikelihood]_vars

\* C20: a call of hierarchical_likelihood with residuals_valid true runs no
\* forward model and changes nothing in the object but residual_normed, which
\* becomes last_valid_residual whitened with the proposed lambda_scale; the value
\* and the log-normalization it returns are those of that whitening.
C20HierarchicalLikelihoodFrame ==
  [][(pc = "ready" /\ global.residuals_valid) =>
       /\ trace'.forward_calls = 0
       /\ global'.residual = global.residual
       /\ global'.last_valid_residual = global.last_valid_residual
       /\ global'.last_valid_residual_normed = global.last_valid_residual_normed
       /\ global'.lambda_scale = global.lambda_scale
       /\ global'.wt = global.wt
       /\ \E normed \in {global'.residual_normed} :
            global' = [global EXCEPT !.residual_normed = normed]
       /\ ~cfg.posteriork =>
            /\ global'.residual_normed =
                 [col \in 1 .. Width |->
                    Whiten(global.last_valid_residual[col], trace'.proposed_lambda_scale)]
            /\ trace'.returned = SumSq(global'.residual_normed, Width)
            /\ trace'.log_normalization = Width * trace'.proposed_lambda_scale]_vars

C20Witness ==
  /\ pc = "returned"
  /\ ~cfg.posteriork
  /\ trace.residuals_valid
  /\ trace.proposed_lambda_scale # global.lambda_scale
  /\ global.residual # global.last_valid_residual
  /\ global.residual_normed # global.last_valid_residual_normed

\* ------------------------------------------------------------ the pixel sampler on several ranks
PixelRanks == 2
MaxLogU == 4

PixelRankSet == 0 .. (cfg.mpi_size - 1)

\* part_000:1204-1207 primary: without a communicator, or rank 0 of it
Primary(rank) == cfg.mpi_size = 1 \/ rank = 0

\* global_pixel.cpp:306-391: the misfit of the columns i = mpi_rank, mpi_rank +
\* mpi_size, ... of the image of this rank (one row, response = conductivity,
\* observation 0, noise 1, twice the sum)
RECURSIVE PixelLocalSum(_, _, _)
PixelLocalSum(image, i, stride) ==
  IF i > PixelCount THEN 0 ELSE image[i] * image[i] + PixelLocalSum(image, i + stride, stride)

\* global_pixel.cpp:393-402: MPI_Reduce to rank 0, then MPI_Bcast of the total
RECURSIVE PixelReduce(_, _)
PixelReduce(images, rank) ==
  IF rank < 0 THEN 0
  ELSE PixelLocalSum(images[rank], rank + 1, cfg.mpi_size) + PixelReduce(images, rank - 1)

\* part_000:1253-1264 compute_likelihood: likelihood() without a communicator,
\* likelihood_mpi() with one; images is the image each rank holds
PixelLikelihood(images) ==
  IF cfg.mpi_size = 1 THEN PixelLocalSum(images[0], 1, 1)
  ELSE PixelReduce(images, cfg.mpi_size - 1)

\* part_000:1209-1227: what rank 0 draws
PixelDraws(image) ==
  {d \in [idx : 1 .. PixelCount, newvalue : PixelValues, u : {-MaxLogU, 0}] :
     d.newvalue # image[d.idx]}

PixelDrawValid(d) == d.newvalue >= cfg.prior_min /\ d.newvalue <= cfg.prior_max

\* part_000:1266-1284 compute_acceptance on the primary rank: u < alpha
ComputeAcceptance(d, current_likelihood, proposed_likelihood) ==
  d.u < current_likelihood - proposed_likelihood

\* communicate_acceptance that leaves each rank its own accept_proposal
CommunicateAcceptanceLocal(rank, root_accept, own_accept) == own_accept

\* part_000:1286-1308 communicate_acceptance: rank 0 broadcasts, the others take it
CommunicateAcceptance(rank, root_accept, own_accept) ==
  IF cfg.mpi_size = 1 \/ rank = 0 THEN own_accept ELSE root_accept

\* part_000:1105-1106,1230-1250: value_idx after the draw and the broadcasts.  A
\* rank other than rank 0 gets the index from the broadcast of a valid proposal
\* only; otherwise its value_idx keeps the indeterminate value of the declaration
ValueIdx(rank, d, indeterminate) ==
  IF Primary(rank) \/ PixelDrawValid(d) THEN d.idx ELSE indeterminate

ValueIdxSource(rank, d) ==
  IF Primary(rank) THEN "draw" ELSE IF PixelDrawValid(d) THEN "broadcast" ELSE "indeterminate"

\* The values an uninitialized int can hold, as positions of conductivity:
\* 0 and PixelCount + 1 stand for the indices outside [0, size)
IndeterminateIdx == 0 .. (PixelCount + 1)

\* part_000:1230-1250 and global_pixel.cpp:395-398 and part_000:1297: the
\* collectives a rank enters in one step
StepCollectives(valid) ==
  IF cfg.mpi_size = 1 THEN <<>>
  ELSE IF valid
  THEN <<"Bcast valid_proposal", "Bcast value_idx", "Bcast value",
         "Reduce sum", "Bcast total", "Bcast accept">>
  ELSE <<"Bcast valid_proposal">>

\* step that counts every proposal as accepted
StepCountersAlways(g, accepted) == [g EXCEPT !.propose = @ + 1, !.accept = @ + 1]

\* part_000:1104 propose ++ and part_000:1159 accept ++
StepCounters(g, accepted) ==
  [g EXCEPT !.propose = @ + 1, !.accept = IF accepted THEN @ + 1 ELSE @]

\* part_000:1101-1176 ValuePixel::step on one rank, given the proposed likelihood
\* the collectives returned and the acceptance the rank ends with
RankValuePixelStep(g, d, value_idx, accepted, proposed_likelihood) ==
  LET counted == StepCounters(g, PixelDrawValid(d) /\ accepted)
  IN [counted EXCEPT
        !.image = IF PixelDrawValid(d) /\ accepted
                  THEN [@ EXCEPT ![value_idx] = d.newvalue] ELSE @,
        !.current_likelihood =
           IF PixelDrawValid(d) /\ accepted THEN proposed_likelihood ELSE @]

PixelMpiInputs ==
  [mpi_size : 1 .. PixelRanks,
   total : {PixelTotal},
   prior_min : {PixelPriorMin},
   prior_max : {MaxPixelValue},
   initial : [1 .. PixelCount -> PixelPriorMin .. (PixelPriorMin + 1)]]

\* aeminvert_pixel.cpp:258-286.  global is the GlobalPixel and ValuePixel of each
\* rank, trace what each rank did in its last step, pc the position of each rank
InitPixelMpi ==
  /\ cfg \in PixelMpiInputs
  /\ pc = [r \in PixelRankSet |-> "loop"]
  /\ iter = 0
  /\ global = [r \in PixelRankSet |->
                 [image |-> cfg.initial,
                  current_likelihood |-> PixelLikelihood([q \in PixelRankSet |-> cfg.initial]),
                  propose |-> 0,
                  accept |-> 0]]
  /\ trace = [r \in PixelRankSet |->
                [collectives |-> <<>>, value_idx |-> 1, source |-> "none",
                 accepted |-> FALSE,
                 draw |-> [idx |-> 1, newvalue |-> cfg.initial[1], u |-> 0]]]
  /\ ch = <<>>
  /\ fp_ch = <<>>
  /\ khistogram = <<>>

\* aeminvert_pixel.cpp:288-309 with part_000:1101-1176: one step on all ranks of
\* the communicator.  A rank that reads conductivity at an index outside the
\* image either reads some value (it only goes to pb.oldvalue) or stops there.
PixelMpiStep ==
  /\ \A r \in PixelRankSet : pc[r] = "loop"
  /\ iter < cfg.total
  /\ \E d \in PixelDraws(global[0].image) :
     \E indeterminate \in [PixelRankSet -> IndeterminateIdx] :
     \E down \in SUBSET {r \in PixelRankSet :
                           ValueIdx(r, d, indeterminate[r]) \notin 1 .. PixelCount} :
       LET valid == PixelDrawValid(d)
           idx == [r \in PixelRankSet |-> ValueIdx(r, d, indeterminate[r])]
           perturbed == [r \in PixelRankSet |->
                           IF valid THEN [global[r].image EXCEPT ![idx[r]] = d.newvalue]
                           ELSE global[r].image]
           proposed_likelihood == PixelLikelihood(perturbed)
           root_accept == valid /\ ComputeAcceptance(d, global[0].current_likelihood,
                                                     proposed_likelihood)
           accepted == [r \in PixelRankSet |->
                          CommunicateAcceptance(r, root_accept,
                                                IF Primary(r) THEN root_accept ELSE FALSE)]
       IN /\ \A r \in PixelRankSet :
               ValueIdxSource(r, d) # "indeterminate" => indeterminate[r] = 0
          /\ trace' = [r \in PixelRankSet |->
                         [collectives |-> StepCollectives(valid),
                          value_idx |-> idx[r],
                          source |-> ValueIdxSource(r, d),
                          accepted |-> valid /\ accepted[r],
                          draw |-> d]]
          /\ IF down # {}
             THEN /\ pc' = [r \in PixelRankSet |-> IF r \in down THEN "crashed" ELSE pc[r]]
                  /\ UNCHANGED <<global, iter>>
             ELSE /\ global' = [r \in PixelRankSet |->
                                  RankValuePixelStep(global[r], d, idx[r], accepted[r],
                                                     proposed_likelihood)]
                  /\ iter' = iter + 1
                  /\ pc' = pc
  /\ UNCHANGED <<cfg, ch, fp_ch, khistogram>>

\* aeminvert_pixel.cpp:311-333: the end of main
PixelMpiFinish ==
  /\ \A r \in PixelRankSet : pc[r] = "loop"
  /\ iter = cfg.total
  /\ pc' = [r \in PixelRankSet |-> "done"]
  /\ UNCHANGED <<cfg, iter, global, trace, ch, fp_ch, khistogram>>

NextPixelMpi == PixelMpiStep \/ PixelMpiFinish

SpecPixelMpi == InitPixelMpi /\ [][NextPixelMpi]_vars

\* C21: in every step all ranks enter the same collectives, those of a valid or
\* of an invalid proposal, and after every step all ranks hold the same image
\* and the same current_likelihood.
C21RanksAgree ==
  \A r \in PixelRankSet : \A q \in PixelRankSet :
    /\ trace[r].collectives = trace[q].collectives
    /\ trace[r].source # "none" =>
         trace[r].collectives = StepCollectives(PixelDrawValid(trace[r].draw))
    /\ global[r].image = global[q].image
    /\ global[r].current_likelihood = global[q].current_likelihood

C21Witness ==
  /\ cfg.mpi_size = PixelRanks
  /\ iter = cfg.total
  /\ trace[1].accepted
  /\ global[1].image # cfg.initial
  /\ global[1].accept < global[1].propose

\* C27: a step that does not accept leaves the image and current_likelihood of
\* the rank as they were; a step that accepts changes the chosen pixel only, to
\* the proposed value, and current_likelihood becomes the likelihood of the
\* perturbed image; propose grows by one in every step, accept only on acceptance.
C27StepFrame ==
  [][iter' = iter + 1 =>
       \A r \in PixelRankSet :
         LET before == global[r]
             after == global'[r]
             t == trace'[r]
         IN /\ after.propose = before.propose + 1
            /\ IF t.accepted
               THEN /\ after.image = [before.image EXCEPT ![t.value_idx] = t.draw.newvalue]
                    /\ after.current_likelihood =
                         PixelLikelihood([q \in PixelRankSet |-> global'[q].image])
                    /\ after.accept = before.accept + 1
               ELSE /\ after.image = before.image
                    /\ after.current_likelihood = before.current_likelihood
                    /\ after.accept = before.accept]_vars

C27Witness ==
  /\ iter = cfg.total
  /\ global[0].propose = cfg.total
  /\ global[0].accept = 1
  /\ ~trace[0].accepted
  /\ PixelDrawValid(trace[0].draw)

\* C28: in every step every rank accesses conductivity at a position inside the
\* image only, and the position is the rank's own draw or the one rank 0
\* broadcast, also on the other ranks after an invalid proposal.
C28IndexInRange ==
  \A r \in PixelRankSet :
    trace[r].source # "none" =>
      /\ trace[r].value_idx \in 1 .. PixelCount
      /\ trace[r].source \in {"draw", "broadcast"}

\* ------------------------------------------------------------ termination of the PT driver
\* C22: a run with an accepted layout and no failing write never blocks and
\* never loses a rank: no rank stops before MPI_Finalize, a rank that has
\* finished has completed total iterations, and as long as some rank has not
\* finished some rank can take a step.
C22RunsToFinalize ==
  LayoutAccepted(cfg) =>
    /\ \A r \in Ranks : pc[r] \notin {"crashed", "failed"}
    /\ \A r \in Ranks : pc[r] = "done" => iter[r] = cfg.total - 1
    /\ (\A r \in Ranks : pc[r] = "done") \/ ENABLED Next

\* ------------------------------------------------------------ the residual segments of a chain
MaxResponses == 2

\* part_008:84-87,216: the responses of one point, each by its number of
\* datapoints; also the windows of the systems of the forward model
ResponseLists ==
  UNION {[1 .. n -> 1 .. MaxWindows] : n \in 1 .. MaxResponses}

RECURSIVE SumSeq(_, _)
SumSeq(q, n) == IF n = 0 THEN 0 ELSE q[n] + SumSeq(q, n - 1)

\* part_008:267-280 total_response_datapoints
RECURSIVE TotalResponseDatapoints(_, _)
TotalResponseDatapoints(points, n) ==
  IF n = 0 THEN 0
  ELSE SumSeq(points[n], Len(points[n])) + TotalResponseDatapoints(points, n - 1)

\* global.cpp:170-175,190-194: what Global's constructor checks of the file
ObservationsAccepted(in) ==
  /\ Len(in.points) = Width
  /\ Len(in.forwardmodel) = Len(in.points[1])

\* global.cpp:209
ResidualSize(in) == TotalResponseDatapoints(in.points, Len(in.points))

\* global.cpp:216
ResidualsPerColumn(in) == ResidualSize(in) \div Width

\* global.cpp:562-568 residual_offsets[i]
ResidualOffset(in, i) == ColumnOffset(i, in.mpi_size) * ResidualsPerColumn(in)

\* global.cpp:555-556 residual_sizes[i]
ResidualSegmentSize(in, i) == ColumnSize(i, Width, in.mpi_size) * ResidualsPerColumn(in)

\* The cells [residual_offsets[i], residual_offsets[i] + residual_sizes[i]) of
\* MPI_Allgatherv, global.cpp:749-765
Segment(in, i) ==
  {n \in 0 .. (ResidualSize(in) + MaxWindows * MaxResponses) :
     n >= ResidualOffset(in, i) /\ n < ResidualOffset(in, i) + ResidualSegmentSize(in, i)}

\* global.cpp:651-720 for one column (col counts from 0): responses[k] is taken
\* for every system k of the forward model, its size is compared with that of
\* the forward response, then its residuals are written
ColumnOutcome(in, col) ==
  LET p == in.points[col + 1]
      bad == {k \in 1 .. Len(in.forwardmodel) : k > Len(p) \/ p[k] # in.forwardmodel[k]}
      first == CHOOSE k \in bad : \A j \in bad : k <= j
  IN IF bad = {} THEN "ok"
     ELSE IF first > Len(p) THEN "overrun" ELSE "thrown"

\* global.cpp:626,670,680: the cells the column writes
ColumnCells(in, col) ==
  LET start == col * ResidualsPerColumn(in)
  IN {n \in 0 .. (ResidualSize(in) + MaxWindows * MaxResponses) :
        n >= start /\ n < start + SumSeq(in.forwardmodel, Len(in.forwardmodel))}

RankColumns(in, rank) ==
  {col \in 0 .. (Width - 1) :
     /\ col >= ColumnOffset(rank, in.mpi_size)
     /\ col < ColumnOffset(rank, in.mpi_size) + ColumnSize(rank, Width, in.mpi_size)}

RankOutcome(in, rank) ==
  IF \E col \in RankColumns(in, rank) : ColumnOutcome(in, col) = "overrun" THEN "overrun"
  ELSE IF \E col \in RankColumns(in, rank) : ColumnOutcome(in, col) = "thrown" THEN "thrown"
  ELSE "ok"

\* global.cpp:624-728: the buffer of a rank after its own columns; a cell holds
\* the column whose residual it is, or the content the rank allocated it with
RankResidual(in, rank, buffer) ==
  [n \in DOMAIN buffer |->
     IF \E col \in RankColumns(in, rank) : n \in ColumnCells(in, col)
     THEN [column |-> CHOOSE col \in RankColumns(in, rank) : n \in ColumnCells(in, col),
           fresh |-> TRUE]
     ELSE buffer[n]]

\* global.cpp:749-765 MPI_Allgatherv: every rank receives each segment from the
\* rank that owns it and keeps the other cells
AllgatherResidual(in, rank, local) ==
  [n \in DOMAIN local[rank] |->
     IF \E i \in 0 .. (in.mpi_size - 1) : n \in Segment(in, i)
     THEN local[CHOOSE i \in 0 .. (in.mpi_size - 1) : n \in Segment(in, i)][n]
     ELSE local[rank][n]]

ResidualInputs ==
  [points : [1 .. Width -> ResponseLists],
   forwardmodel : ResponseLists,
   mpi_size : 1 .. MaxTemperatures]

InitResiduals ==
  /\ cfg \in ResidualInputs
  /\ pc = "construct"
  /\ iter = 0
  /\ global = <<>>
  /\ trace = <<>>
  /\ ch = <<>>
  /\ fp_ch = <<>>
  /\ khistogram = <<>>

\* global.cpp:140-217: the constructor; new double[residual_size] leaves the
\* cells with whatever the rank's memory holds
ConstructGlobal ==
  /\ pc = "construct"
  /\ IF ObservationsAccepted(cfg)
     THEN /\ pc' = "constructed"
          /\ global' = [r \in 0 .. (cfg.mpi_size - 1) |->
                          [n \in 0 .. (ResidualSize(cfg) - 1) |->
                             [column |-> r, fresh |-> FALSE]]]
     ELSE /\ pc' = "rejected"
          /\ global' = global
  /\ UNCHANGED <<cfg, iter, trace, ch, fp_ch, khistogram>>

\* global.cpp:530-575 initialize_mpi on every rank of the chain
InitializeSegments ==
  /\ pc = "constructed"
  /\ pc' = "initialized"
  /\ trace' = [i \in 0 .. (cfg.mpi_size - 1) |-> Segment(cfg, i)]
  /\ UNCHANGED <<cfg, iter, global, ch, fp_ch, khistogram>>

\* global.cpp:578-770 likelihood_mpi on every rank of the chain
GatherResiduals ==
  /\ pc = "initialized"
  /\ LET ranks == 0 .. (cfg.mpi_size - 1)
         outcomes == {RankOutcome(cfg, r) : r \in ranks}
         local == [r \in ranks |-> RankResidual(cfg, r, global[r])]
     IN IF outcomes = {"ok"}
        THEN /\ global' = [r \in ranks |-> AllgatherResidual(cfg, r, local)]
             /\ pc' = "gathered"
        ELSE /\ global' = global
             /\ pc' = IF "overrun" \in outcomes THEN "overrun" ELSE "thrown"
  /\ iter' = iter + 1
  /\ UNCHANGED <<cfg, trace, ch, fp_ch, khistogram>>

NextResiduals == ConstructGlobal \/ InitializeSegments \/ GatherResiduals

SpecResiduals == InitResiduals /\ [][NextResiduals]_vars

\* C23: for every observation file the constructor accepts, once likelihood_mpi
\* has returned on the ranks of a chain the segments of the ranks tile
\* [0, residual_size) exactly, every column's cells lie in the segment of the
\* rank that owns the column, and every rank holds the same residuals, each
\* cell that of the current model.
C23ResidualsTiled ==
  pc = "gathered" =>
    LET ranks == 0 .. (cfg.mpi_size - 1)
        cells == 0 .. (ResidualSize(cfg) - 1)
    IN /\ UNION {trace[i] : i \in ranks} = cells
       /\ \A i \in ranks : \A j \in ranks : i # j => trace[i] \cap trace[j] = {}
       /\ \A i \in ranks : \A col \in RankColumns(cfg, i) : ColumnCells(cfg, col) \subseteq trace[i]
       /\ \A i \in ranks : \A n \in cells : global[i][n].fresh
       /\ \A i \in ranks : global[i] = global[0]

\* ------------------------------------------------------------ the median of a histogram
MedianBins == 3
MaxBinCount == 3

MedianHistograms == [0 .. (MedianBins - 1) -> 0 .. MaxBinCount]

\* The count of the bins of hist in the set B
RECURSIVE BinCount(_, _)
BinCount(hist, B) ==
  IF B = {} THEN 0
  ELSE LET b == CHOOSE x \in B : TRUE IN hist[b] + BinCount(hist, B \ {b})

\* part_000:903-906, postprocess_pixel_mean.cpp:534-537.  global holds i, j, ci
\* and cj of the walk over the histogram cfg
InitMedian ==
  /\ cfg \in MedianHistograms
  /\ pc = "walk"
  /\ global = [i |-> 0, j |-> MedianBins - 1, ci |-> 0, cj |-> 0]
  /\ iter = 0
  /\ trace = <<>>
  /\ ch = <<>>
  /\ fp_ch = <<>>
  /\ khistogram = <<>>

\* part_000:908-911, postprocess_pixel_mean.cpp:539-542: the branch ci < cj
MedianFromBelow ==
  /\ pc = "walk"
  /\ global.i # global.j
  /\ global.ci < global.cj
  /\ global' = [global EXCEPT !.ci = @ + cfg[global.i], !.i = @ + 1]
  /\ iter' = iter + 1
  /\ UNCHANGED <<cfg, pc, trace, ch, fp_ch, khistogram>>

\* part_000:912-915, postprocess_pixel_mean.cpp:543-546: the other branch
MedianFromAbove ==
  /\ pc = "walk"
  /\ global.i # global.j
  /\ ~(global.ci < global.cj)
  /\ global' = [global EXCEPT !.cj = @ + cfg[global.j], !.j = @ - 1]
  /\ iter' = iter + 1
  /\ UNCHANGED <<cfg, pc, trace, ch, fp_ch, khistogram>>

\* part_000:918, postprocess_pixel_mean.cpp:549: the centre of bin i is returned
MedianReturn ==
  /\ pc = "walk"
  /\ global.i = global.j
  /\ pc' = "done"
  /\ trace' = <<global.i>>
  /\ UNCHANGED <<cfg, iter, global, ch, fp_ch, khistogram>>

NextMedian == MedianFromBelow \/ MedianFromAbove \/ MedianReturn

SpecMedian == InitMedian /\ [][NextMedian]_vars

\* C24: for every histogram that is not empty, median_from_histogram returns a
\* bin m with at most half of the total count in the bins below m and at most
\* half in the bins above m.
C24MedianBin ==
  (pc = "done" /\ BinCount(cfg, DOMAIN cfg) > 0) =>
    LET m == trace[1]
        total == BinCount(cfg, DOMAIN cfg)
    IN /\ 2 * BinCount(cfg, {b \in DOMAIN cfg : b < m}) <= total
       /\ 2 * BinCount(cfg, {b \in DOMAIN cfg : b > m}) <= total

\* ------------------------------------------------------------ skipping in the postprocessors
\* C25: with --skip n and thin <= 1 a postprocessor has recorded, after any
\* number of replayed samples, every sample but the first n: none of the first
\* n and all of the later ones.
C25SkipsExactly ==
  (pc = "process" /\ cfg.thin <= 1) =>
    global.counter = IF global.thincounter > cfg.skip
                     THEN global.thincounter - cfg.skip
                     ELSE 0

\* ------------------------------------------------------------ noise models and systems
MaxSystems == 3

\* cfg counts the --stm-file and --hierarchical options and the responses of the
\* first point of the observations
OptionInputs ==
  [driver : {"aeminvert_pt", "aeminvert_mpi"},
   stm_files : 0 .. MaxSystems,
   hierarchical_files : 0 .. MaxSystems,
   responses : 1 .. MaxSystems,
   posteriork : BOOLEAN]

\* aeminvert_pt.cpp:416-419 and aeminvert_mpi.cpp:329-337: the checks of the two
\* lists before Global is constructed
OptionsAccepted(in) ==
  /\ in.stm_files # 0
  /\ in.driver = "aeminvert_mpi" => in.hierarchical_files = in.stm_files

\* global.cpp:125-175: forwardmodel and lambda get one entry per file; only the
\* number of systems is compared, with the responses of the first point
GlobalAccepted(in) == in.posteriork \/ in.stm_files = in.responses

InitOptions ==
  /\ cfg \in OptionInputs
  /\ pc = "options"
  /\ iter = 0
  /\ global = <<>>
  /\ trace = [lambda_overrun |-> FALSE]
  /\ ch = <<>>
  /\ fp_ch = <<>>
  /\ khistogram = <<>>

\* aeminvert_pt.cpp:411-424, aeminvert_mpi.cpp:324-341: return -1 or go on
CheckOptions ==
  /\ pc = "options"
  /\ pc' = IF OptionsAccepted(cfg) THEN "construct" ELSE "rejected"
  /\ UNCHANGED <<cfg, iter, global, trace, ch, fp_ch, khistogram>>

\* global.cpp:125-175
ConstructNoise ==
  /\ pc = "construct"
  /\ IF GlobalAccepted(cfg)
     THEN /\ pc' = "likelihood"
          /\ global' = IF cfg.posteriork
                       THEN [forwardmodel |-> 0, lambda |-> 0]
                       ELSE [forwardmodel |-> cfg.stm_files,
                             lambda |-> cfg.hierarchical_files]
     ELSE /\ pc' = "thrown"
          /\ global' = global
  /\ UNCHANGED <<cfg, iter, trace, ch, fp_ch, khistogram>>

\* global.cpp:396-400 (also 505-509 and 651-655): system k of the likelihood
\* loop takes lambda[k]; iter is k
LikelihoodSystem ==
  /\ pc = "likelihood"
  /\ iter < global.forwardmodel
  /\ iter' = iter + 1
  /\ trace' = [trace EXCEPT !.lambda_overrun = @ \/ iter >= global.lambda]
  /\ UNCHANGED <<cfg, pc, global, ch, fp_ch, khistogram>>

LikelihoodReturns ==
  /\ pc = "likelihood"
  /\ iter = global.forwardmodel
  /\ pc' = "done"
  /\ UNCHANGED <<cfg, iter, global, trace, ch, fp_ch, khistogram>>

NextOptions == CheckOptions \/ ConstructNoise \/ LikelihoodSystem \/ LikelihoodReturns

SpecOptions == InitOptions /\ [][NextOptions]_vars

\* C26: a driver goes past its option checks only with as many hierarchical
\* noise models as STM files, so that the likelihood never takes lambda[k] for
\* a system k without a model.
C26NoiseModelPerSystem ==
  /\ pc \notin {"options", "rejected"} => cfg.hierarchical_files = cfg.stm_files
  /\ ~trace.lambda_overrun

\* ------------------------------------------------------------ the ring and ch.dat
\* C29: a chain root holds records in its chain-history ring, or has written
\* some to ch.dat, only if the ring was initialised and ch.dat opened before
\* (it is closed again when the root leaves the loop), in every mode of the
\* driver.
C29RingInitialisedFirst ==
  Constructed =>
    \A c \in Chains :
      (ch[c].steps # <<>> \/ fp_ch[c].segments > 0 \/ trace.appended[c] > 0) =>
        /\ ch[c].initialised
        /\ fp_ch[c].open \/ pc[Root(c)] \in {"done", "failed"}

\* ------------------------------------------------------------ the running residual statistics
\* C30: whenever a rank folds a sample into its running residual statistics
\* (mean_residual_n grows), the sample, which is taken from the last_valid
\* buffers, is the residual of the model the rank then holds, whitened under
\* the lambda_scale it then holds.
C30FoldsCurrentResiduals ==
  [][(Constructed /\ ~cfg.posteriork) =>
       \A r \in Ranks :
         global'[r].mean_residual_n > global[r].mean_residual_n =>
           \A col \in 1 .. Width :
             /\ global'[r].last_valid_residual[col] = LocalResidual(global'[r].wt, col)
             /\ global'[r].last_valid_residual_normed[col] =
                  Whiten(LocalResidual(global'[r].wt, col), global'[r].lambda_scale)]_vars

====
